---------------------------- MODULE Spec2Model ----------------------------
(***************************************************************************)
(* The learning pipeline of the Dimag extension: the event queue of        *)
(* LearningCapture (capture.ts), its pattern extractor, the                *)
(* dimag.commitLearnings command (extension.ts) and the GitCommitter       *)
(* (second half of sync.ts: merge into the store file, statistics, and the *)
(* two publish tiers). Further: the extractor called on stored queues, the *)
(* PatternMatcher (pattern-matcher.ts) and LearningSync (first half of     *)
(* sync.ts) with its working copy, origin/main and its auto-sync timer; a  *)
(* session that runs the synchronizer and the committer side by side; and  *)
(* captureDecision calls that interleave at their awaits.                  *)
(*                                                                         *)
(* Numbers: a ratio a/b is the record [num |-> a, den |-> b]; an           *)
(* aiAction.confidence is held in hundredths (80 stands for 0.8).          *)
(* A string field that is absent in the source (undefined) is "".          *)
(***************************************************************************)
EXTENDS Integers, Sequences, FiniteSets, TLC

VARIABLES
  queue,              \* LearningCapture.queue (in memory)
  persistedQueue,     \* globalState 'learningQueue'
  extractedPatterns,  \* globalState 'extractedPatterns' (<<>> stands for undefined)
  clock,              \* Date.now(), in ticks
  captures,           \* number of captureDecision calls made so far
  last,               \* the handler that ran last and what it did
  brainRepo,          \* <globalStorage>/dimag-brain/.git exists
  store,              \* learnings/patterns/architectural-decisions.json of that working copy
  stats,              \* learnings/statistics/learning-metrics.json of that working copy
  treeDirty,          \* that working tree differs from its HEAD
  unpushed,           \* local commits that are not on origin/main
  apiToken,           \* secrets 'dimag.apiToken' is set
  cpc,                \* position of the running dimag.commitLearnings command
  batch,              \* the patterns argument of the running commitPatterns
  t1,                 \* vscodeResult of the running commitPatterns
  reply,              \* the answer of the backend endpoint to the running request
  result,             \* what the last commitPatterns returned
  log,                \* the publish steps of the running/last commitPatterns, in order
  commits,            \* number of commitPatterns calls made so far
  git,                \* LearningSync.git is set
  syncGitDir,         \* <globalStorage>/dimag/.git exists
  syncHead,           \* HEAD of that working copy: its history, oldest revision first
  syncStore,          \* learnings/patterns/architectural-decisions.json of that working copy
  origin,             \* origin/main of REPO_URL: its history, <<>> when the remote does not exist
  cachedPatterns,     \* PatternMatcher.cachedPatterns
  cacheExpiry,        \* PatternMatcher.cacheExpiry
  ret,                \* the last call of the extractor, the matcher or the synchronizer and what it returned
  autoSync,           \* LearningSync.autoSyncInterval and the interval timers of the extension host
  inflight,           \* the captureDecision calls that are suspended at an await, by caller
  extractions         \* the inputs of triggerCommit's extractions that found patterns, in order

vars == <<queue, persistedQueue, extractedPatterns, clock, captures, last,
          brainRepo, store, stats, treeDirty, unpushed, apiToken, cpc, batch, t1,
          reply, result, log, commits, git, syncGitDir, syncHead, syncStore,
          origin, cachedPatterns, cacheExpiry, ret, autoSync, inflight,
          extractions>>

queueVars == <<queue, persistedQueue, captures>>
repoVars == <<brainRepo, store, stats, treeDirty, unpushed>>
callVars == <<batch, t1, reply, result, log, commits>>
raceVars == <<inflight, extractions>>
pipelineVars == <<queueVars, extractedPatterns, last, repoVars, apiToken, cpc, callVars,
                  raceVars>>
syncVars == <<git, syncGitDir, syncHead, syncStore, origin, autoSync>>
matcherVars == <<cachedPatterns, cacheExpiry>>
libVars == <<syncVars, matcherVars, ret, raceVars>>

----------------------------------------------------------------------------
(* Bounds of the model *)

MaxCaptures == 3
MaxCommits == 2
MaxClock == 2
MaxEvents == 4

(* Program constants *)

COMMIT_THRESHOLD == 10
GrowthKeep == 90

\* ticks of the clock in one calendar day
TicksPerDay == 2

NoValue == ""

----------------------------------------------------------------------------
(* Sequence helpers *)

RECURSIVE SelectIdx(_, _, _)
SelectIdx(s, P(_), i) ==
  IF i > Len(s) THEN <<>>
  ELSE (IF P(s[i]) THEN <<s[i]>> ELSE <<>>) \o SelectIdx(s, P, i + 1)

Filter(s, P(_)) == SelectIdx(s, P, 1)

Range(s) == { s[i] : i \in 1..Len(s) }

RECURSIVE Repeat(_, _)
Repeat(x, n) == IF n = 0 THEN <<>> ELSE <<x>> \o Repeat(x, n - 1)

RECURSIVE SumSeq(_)
SumSeq(s) == IF s = <<>> THEN 0 ELSE Head(s) + SumSeq(Tail(s))

RECURSIVE Flatten(_)
Flatten(ss) == IF ss = <<>> THEN <<>> ELSE Head(ss) \o Flatten(Tail(ss))

Count(s, x) == Cardinality({ i \in 1..Len(s) : s[i] = x })

\* the distinct elements of s in order of first occurrence (insertion order of
\* the keys of a JS object filled by a reduce over s)
RECURSIVE Keys(_)
Keys(s) ==
  IF s = <<>> THEN <<>>
  ELSE LET init == Keys(SubSeq(s, 1, Len(s) - 1))
           x == s[Len(s)]
       IN IF x \in Range(init) THEN init ELSE Append(init, x)

----------------------------------------------------------------------------
(* The vocabulary of the modelled events *)

\* technology names in the order of Array.prototype.sort (UTF-16 code units)
TechOrder == <<"docker", "node", "react">>

\* String.toLowerCase().replace(/[^a-z0-9_-]/g, '') on the vocabulary
Slug(s) ==
  CASE s = "Web"          -> "web"
    [] OTHER              -> s

\* String.includes on the vocabulary of problem types
Includes(s, word) ==
  CASE word = "deployment"   -> s \in {"deployment-x"}
    [] word = "error"        -> s \in {"error-build"}
    [] word = "architecture" -> s \in {"architecture-y"}
    [] word = "performance"  -> s \in {"performance-z"}
    [] OTHER                 -> FALSE

\* a field of a JS object, NoValue when the object does not have it
Get(obj, f) == IF f \in DOMAIN obj THEN obj[f] ELSE NoValue

\* c.technologies || []
Techs(c) == IF "technologies" \in DOMAIN c THEN c.technologies ELSE <<>>

Event(type, ctx, suggestion, conf, approach, user, outcome) ==
  [type |-> type, context |-> ctx,
   aiAction |-> [suggestion |-> suggestion, confidence |-> conf, approach |-> approach],
   userAction |-> user, outcome |-> outcome]

----------------------------------------------------------------------------
(* The pattern extractor of LearningCapture *)

isSimilarContext(ctx1, ctx2) ==
  LET tech1 == Range(Techs(ctx1))
      tech2 == Range(Techs(ctx2))
      intersection == tech1 \cap tech2
      union == tech1 \cup tech2
  IN \/ /\ Get(ctx1, "projectType") # NoValue
        /\ Get(ctx2, "projectType") # NoValue
        /\ ctx1.projectType = ctx2.projectType
     \/ /\ "technologies" \in DOMAIN ctx1
        /\ "technologies" \in DOMAIN ctx2
        \* intersection.length / union.size >= 0.5; 0/0 is NaN, which is not >= 0.5
        /\ union # {}
        /\ 2 * Cardinality(intersection) >= Cardinality(union)
     \/ /\ Get(ctx1, "problemType") # NoValue
        /\ Get(ctx2, "problemType") # NoValue
        /\ ctx1.problemType = ctx2.problemType

\* groups.find(...): the index of the first group whose first member is similar, 0 if none
MatchedGroupLast(groups, event) ==
  LET hits == { i \in 1..Len(groups) : isSimilarContext(groups[i][1].context, event.context) }
  IN IF hits = {} THEN 0 ELSE CHOOSE i \in hits : \A j \in hits : i >= j

MatchedGroup(groups, event) ==
  LET hits == { i \in 1..Len(groups) : isSimilarContext(groups[i][1].context, event.context) }
  IN IF hits = {} THEN 0 ELSE CHOOSE i \in hits : \A j \in hits : i <= j

RECURSIVE GroupFrom(_, _)
GroupFrom(groups, events) ==
  IF events = <<>> THEN groups
  ELSE LET event == Head(events)
           m == MatchedGroup(groups, event)
       IN GroupFrom(IF m # 0 THEN [groups EXCEPT ![m] = Append(@, event)]
                             ELSE Append(groups, <<event>>),
                    Tail(events))

groupSimilarEvents(events) == GroupFrom(<<>>, events)

Approved(e) == e.userAction = "APPROVED"

CommonFieldFirst(contexts, f) == Get(contexts[1], f)

\* the common value of a string field: set only if some member has it and all
\* members that have it agree (filter(Boolean) drops the members without it)
CommonField(contexts, f) ==
  LET vals == Filter([i \in 1..Len(contexts) |-> Get(contexts[i], f)],
                     LAMBDA v : v # NoValue)
  IN IF Len(vals) > 0 /\ \A i \in 1..Len(vals) : vals[i] = vals[1]
     THEN vals[1] ELSE NoValue

extractCommonContext(contexts) ==
  LET projectType == CommonField(contexts, "projectType")
      problemType == CommonField(contexts, "problemType")
      allTechs == Flatten([i \in 1..Len(contexts) |-> Techs(contexts[i])])
      technologies == Filter(Keys(allTechs),
                             LAMBDA t : 2 * Count(allTechs, t) >= Len(contexts))
  IN [technologies |-> technologies]
     @@ (IF projectType # NoValue THEN [projectType |-> projectType] ELSE <<>>)
     @@ (IF problemType # NoValue THEN [problemType |-> problemType] ELSE <<>>)

extractCommonSolutionSum(actions) ==
  [approach |-> NoValue,
   averageConfidence |->
     [num |-> SumSeq([i \in 1..Len(actions) |-> actions[i].confidence]), den |-> 100],
   suggestions |-> [i \in 1..Len(actions) |-> actions[i].suggestion]]

extractCommonSolution(actions) ==
  LET approaches == Filter([i \in 1..Len(actions) |-> actions[i].approach],
                           LAMBDA a : a # NoValue)
      keys == Keys(approaches)
      \* entries sorted by count, descending, by a stable sort: the first key
      \* among those of the highest count
      best == { i \in 1..Len(keys) :
                  \A j \in 1..Len(keys) : Count(approaches, keys[j]) <= Count(approaches, keys[i]) }
      mostCommonApproach ==
        IF keys = <<>> THEN NoValue
        ELSE keys[CHOOSE i \in best : \A j \in best : i <= j]
  IN [approach |-> mostCommonApproach,
      averageConfidence |->
        [num |-> SumSeq([i \in 1..Len(actions) |-> actions[i].confidence]),
         den |-> 100 * Len(actions)],
      suggestions |-> [i \in 1..Len(actions) |-> actions[i].suggestion]]

\* Array.prototype.sort on a list of distinct technology names
SortTechs(techs) == Filter(TechOrder, LAMBDA t : t \in Range(techs))

\* `${base}_${Date.now().toString(36)}`; base is kept as its three parts, each
\* lower-cased and stripped like the joined string
generatePatternId(context, now) ==
  LET pt == Get(context, "projectType")
      pb == Get(context, "problemType")
      sorted == SortTechs(Techs(context))
  IN [base |-> << Slug(IF pt # NoValue THEN pt ELSE "unknown"),
                  Slug(IF pb # NoValue THEN pb ELSE "unknown"),
                  [i \in 1..Len(sorted) |-> Slug(sorted[i])] >>,
      ts |-> now]

categorizePatternTechFirst(context) ==
  IF "technologies" \in DOMAIN context THEN "techStack" ELSE "general"

categorizePattern(context) ==
  LET pb == Get(context, "problemType")
  IN CASE Includes(pb, "deployment")   -> "deployment"
       [] Includes(pb, "error")        -> "debugging"
       [] Includes(pb, "architecture") -> "architectural"
       [] Includes(pb, "performance")  -> "performance"
       \* an array, also an empty one, is truthy
       [] "technologies" \in DOMAIN context -> "techStack"
       [] OTHER                        -> "general"

SuccessCountApproved(group) == Len(Filter(group, Approved))

\* e.outcome?.success !== false && e.userAction.type === 'APPROVED'
SuccessCount(group) ==
  Len(Filter(group, LAMBDA e : e.outcome # "failure" /\ Approved(e)))

\* createPattern: <<>> stands for null, <<p>> for the pattern p
createPattern(group, now) ==
  LET approvals == Filter(group, Approved)
      successCount == SuccessCount(group)
      successRate == [num |-> successCount, den |-> Len(group)]
      commonContext == extractCommonContext([i \in 1..Len(group) |-> group[i].context])
      commonSolution == extractCommonSolution([i \in 1..Len(approvals) |-> approvals[i].aiAction])
      \* generatePatternId sorts context.technologies in place
      sortedContext == [commonContext EXCEPT !.technologies = SortTechs(@)]
  IN IF Len(approvals) = 0 THEN <<>>
     ELSE << [id |-> generatePatternId(commonContext, now),
              category |-> categorizePattern(sortedContext),
              pattern |-> [context |-> sortedContext,
                           solution |-> commonSolution,
                           confidence |-> successRate],
              metadata |-> [createdAt |-> now,
                            usageCount |-> Len(group),
                            successRate |-> successRate]] >>

SignificantAny(group) == Len(Filter(group, Approved)) >= 1

\* the groups extractPatterns goes on with: not (approvals.length < 2)
Significant(group) == Len(Filter(group, Approved)) >= 2

extractPatterns(q, now) ==
  LET groups == groupSimilarEvents(q)
      kept == Filter(groups, Significant)
  IN Flatten([i \in 1..Len(kept) |-> createPattern(kept[i], now)])

shouldCommitEarly(q) == Len(q) >= COMMIT_THRESHOLD - 1

shouldCommitAtCrossing(q) == Len(q) = COMMIT_THRESHOLD

shouldCommit(q) == Len(q) >= COMMIT_THRESHOLD

saveQueueBehind(q) == IF q = <<>> THEN q ELSE SubSeq(q, 1, Len(q) - 1)

\* saveQueue: the value written to globalState 'learningQueue'
saveQueue(q) == q

queueAlwaysCleared(pushed, patterns) == <<>>

\* triggerCommit after extractPatterns: the queue it leaves
queueAfterExtraction(pushed, patterns) ==
  IF Len(patterns) = 0 THEN pushed ELSE <<>>

----------------------------------------------------------------------------
(* The store file and the statistics file *)

EmptyMap == [k \in {} |-> 0]

\* new Date().toISOString().split('T')[0]
DayOf(now) == now \div TicksPerDay

EmptyStoreData(now) ==
  [patterns |-> <<>>,
   metadata |-> [lastUpdated |-> now, totalPatterns |-> 0, version |-> "1.0.0"]]

\* a file that does not exist, and one that JSON.parse rejects
MissingFile == [file |-> "missing"]
UnparsableFile == [file |-> "unparsable"]
File(data) == [file |-> "ok", data |-> data]

\* LearningSync.createEmptyStructure: the store file it writes
createEmptyStructure(now) == File(EmptyStoreData(now))

MergePatternsUnchecked(existing, patterns) == existing \o patterns

\* "Add new patterns (avoid duplicates)": existingIds is computed once, before the loop
MergePatterns(existing, patterns) ==
  LET existingIds == { existing[i].id : i \in 1..Len(existing) }
  IN existing \o Filter(patterns, LAMBDA p : p.id \notin existingIds)

MergedStoreStaleTotal(st, patterns, now) ==
  LET existingData == IF st.file = "ok" THEN st.data ELSE EmptyStoreData(now)
  IN File([existingData EXCEPT !.patterns = MergePatterns(@, patterns),
                               !.metadata.lastUpdated = now])

\* updatePatternFiles up to the write of the store file: the content written
MergedStore(st, patterns, now) ==
  LET existingData == IF st.file = "ok" THEN st.data ELSE EmptyStoreData(now)
      merged == MergePatterns(existingData.patterns, patterns)
  IN File([patterns |-> merged,
           metadata |-> [existingData.metadata EXCEPT !.lastUpdated = now,
                                                      !.totalPatterns = Len(merged)]])

EmptyStatsData(now) ==
  [totalPatterns |-> 0, totalContributors |-> 0, totalLearningEvents |-> 0,
   categories |-> EmptyMap, growth |-> <<>>, lastUpdated |-> now]

RECURSIVE CountCategories(_, _)
CountCategories(categories, patterns) ==
  IF patterns = <<>> THEN categories
  ELSE LET category == IF Head(patterns).category # NoValue
                       THEN Head(patterns).category ELSE "unknown"
           n == IF category \in DOMAIN categories THEN categories[category] ELSE 0
       IN CountCategories((category :> n + 1) @@ categories, Tail(patterns))

KeepLastAll(growth, n) == growth

\* stats.growth.slice(-90) when longer than 90
KeepLast(growth, n) ==
  IF Len(growth) > n THEN SubSeq(growth, Len(growth) - n + 1, Len(growth)) ELSE growth

\* updateStatistics: the content written
UpdatedStats(st, patterns, now) ==
  LET d == IF st.file = "ok" THEN st.data ELSE EmptyStatsData(now)
      events == SumSeq([i \in 1..Len(patterns) |->
                  IF patterns[i].metadata.usageCount # 0
                  THEN patterns[i].metadata.usageCount ELSE 1])
  IN File([totalPatterns |-> d.totalPatterns + Len(patterns),
           totalContributors |-> d.totalContributors,
           totalLearningEvents |-> d.totalLearningEvents + events,
           categories |-> CountCategories(d.categories, patterns),
           growth |-> KeepLast(Append(d.growth,
                        [date |-> DayOf(now), patternsAdded |-> Len(patterns)]),
                        GrowthKeep),
           lastUpdated |-> now])

----------------------------------------------------------------------------
(* CommitResult *)

NoHash == <<>>

Result(success, authMethod, commitHash, error) ==
  [success |-> success, authMethod |-> authMethod,
   commitHash |-> commitHash, error |-> error]

\* no commitPatterns has returned yet
NoResult == Result(FALSE, "none", NoHash, {})

\* what the endpoint can answer: a thrown fetch, a status that is not ok, or
\* a body with a commit hash
NoReply == [kind |-> "none", commitHash |-> NoHash, message |-> NoValue]
Replies ==
  { [kind |-> "throw", commitHash |-> NoHash, message |-> "fetch failed"],
    [kind |-> "status", commitHash |-> NoHash, message |-> "Backend API error: Forbidden"],
    [kind |-> "ok", commitHash |-> <<"api", "h1">>, message |-> NoValue],
    [kind |-> "ok", commitHash |-> <<"api", "h2">>, message |-> NoValue] }

----------------------------------------------------------------------------
(* The events and the persisted state the model starts from *)

DeployContext ==
  [projectType |-> "Web", technologies |-> <<"react", "node">>,
   problemType |-> "deployment-x"]

\* captureApproval, captureRejection, and the DECISION the orchestrator captures
evApproval == Event("APPROVAL", DeployContext, "s1", 80, NoValue, "APPROVED", "success")
evRejection == Event("REJECTION", DeployContext, "s2", 60, NoValue, "REJECTED", "failure")
evDecision ==
  Event("DECISION", [projectType |-> "api"], "s3", 90, NoValue, "APPROVED", "none")

EventPool == {evApproval, evRejection}

\* approved events of two groups that both generalize to a context without
\* projectType, problemType and technologies
Plain(pt, pb) ==
  Event("APPROVAL", [projectType |-> pt, problemType |-> pb],
        "s4", 80, "retry", "APPROVED", "success")
TwinQueue ==
  << Plain("web", "deployment-x"), Plain("web", "error-build"),
     Plain("api", "deployment-x"),
     Plain("cli", "performance-z"), Plain("cli", "architecture-y"),
     Plain("lib", "performance-z"),
     Plain("web", "error-build"), Plain("cli", "architecture-y"),
     Plain("web", "error-build"), Plain("cli", "architecture-y") >>

\* queues an earlier session left in globalState
StoredQueues ==
  { <<>>,
    Repeat(evApproval, 8),
    Repeat(evRejection, 9),
    <<evDecision, evDecision>> \o Repeat(evApproval, 7) }

\* batches an earlier session (at time 0) left in globalState
StoredBatches ==
  { <<>>,
    extractPatterns(Repeat(evApproval, 10), 0),
    extractPatterns(<<evDecision, evDecision>> \o Repeat(evApproval, 8), 0),
    extractPatterns(TwinQueue, 0) }

\* the working copy of the committer as an earlier session or a clone left it
FreshRepo == [store |-> MissingFile, stats |-> MissingFile]
BrokenRepo == [store |-> UnparsableFile, stats |-> MissingFile]
UsedRepo ==
  [store |-> MergedStore(MissingFile, extractPatterns(Repeat(evApproval, 10), 0), 0),
   stats |-> UpdatedStats(MissingFile, extractPatterns(Repeat(evApproval, 10), 0), 0)]

\* a working copy after GrowthKeep commits of that batch, one a day, the last
\* at time 0: its statistics hold a full growth history
GrownRepo ==
  LET one == UsedRepo.stats.data
  IN [store |-> UsedRepo.store,
      stats |-> File([one EXCEPT
                 !.totalPatterns = GrowthKeep * one.totalPatterns,
                 !.totalLearningEvents = GrowthKeep * one.totalLearningEvents,
                 !.categories = [c \in DOMAIN one.categories |->
                                   GrowthKeep * one.categories[c]],
                 !.growth = [i \in 1..GrowthKeep |->
                               [date |-> i - GrowthKeep,
                                patternsAdded |-> one.growth[1].patternsAdded]]])]

\* op: the handler; event: <<e>> for a captureDecision of e; size: the queue's
\* length after its push; effects: what it did; found: the number of patterns its
\* extraction returned; done: it has returned
NoCall ==
  [op |-> "none", event |-> <<>>, size |-> 0, effects |-> {}, found |-> 0, done |-> TRUE]

\* the state after activation, given what earlier sessions left behind
InitFrom(queues, batches, repos) ==
  /\ persistedQueue \in queues
  /\ queue = persistedQueue                    \* the constructor's loadQueue
  /\ extractedPatterns \in batches
  /\ clock = 1
  /\ captures = 0
  /\ last = NoCall
  /\ brainRepo \in BOOLEAN
  /\ \E r \in repos : store = r.store /\ stats = r.stats
  /\ treeDirty = FALSE
  /\ unpushed = 0
  /\ apiToken = FALSE
  /\ cpc = "idle"
  /\ batch = <<>>
  /\ t1 = NoResult
  /\ reply = NoReply
  /\ result = NoResult
  /\ log = <<>>
  /\ commits = 0

NoRet == [op |-> "none"]

\* autoSyncInterval = null (handle 0) and no interval timer; made: the timers
\* created so far; op: the last call that touched the timer
NoTimer == [timers |-> {}, handle |-> 0, made |-> 0, op |-> "none"]

\* no captureDecision is suspended, no extraction has run
NoRace == inflight = <<>> /\ extractions = <<>>

\* before LearningSync.initialize and any call of the matcher
LibIdle ==
  /\ git = FALSE
  /\ syncGitDir = FALSE
  /\ syncHead = <<>>
  /\ syncStore = MissingFile
  /\ origin = <<>>
  /\ cachedPatterns = <<>>
  /\ cacheExpiry = 0
  /\ ret = NoRet
  /\ autoSync = NoTimer
  /\ NoRace

Init == InitFrom(StoredQueues, {<<>>}, {FreshRepo, UsedRepo}) /\ LibIdle

InitCommit ==
  InitFrom({<<>>}, StoredBatches, {FreshRepo, BrokenRepo, UsedRepo, GrownRepo}) /\ LibIdle

----------------------------------------------------------------------------
(* LearningCapture *)

\* time passes; the clock is read by captureDecision and by the merge only
Tick ==
  /\ cpc \in {"idle", "merge"}
  /\ clock < MaxClock
  /\ clock' = clock + 1
  /\ UNCHANGED <<libVars, queueVars, extractedPatterns, last, repoVars, apiToken, cpc, callVars>>

\* captureDecision's early return: the call does nothing when the configuration
\* read at its start has learning.enabled false
ReturnsEarlyNever(learningEnabled) == FALSE

ReturnsEarly(learningEnabled) == ~learningEnabled

\* captureDecision with triggerCommit, up to the await of dimag.commitLearnings.
\* learningEnabled and autoCommit are the configuration read by the call, choice
\* the answer to triggerCommit's prompt.
CaptureDecision(event, learningEnabled, autoCommit, choice) ==
  LET pushed == Append(queue, event)
      asked == ~autoCommit
      agreed == autoCommit \/ choice = "Yes, Commit"
      triggered == shouldCommit(pushed)
      extracted == triggered /\ agreed
      patterns == IF extracted THEN extractPatterns(pushed, clock) ELSE <<>>
      committed == Len(patterns) # 0
  IN /\ cpc = "idle"
     /\ captures < MaxCaptures
     /\ captures' = captures + 1
     /\ IF ReturnsEarly(learningEnabled)
        THEN /\ last' = [NoCall EXCEPT !.op = "capture", !.event = <<event>>,
                                       !.size = Len(queue)]
             /\ UNCHANGED <<queue, persistedQueue, extractedPatterns, cpc>>
        ELSE /\ queue' = IF extracted THEN queueAfterExtraction(pushed, patterns)
                         ELSE pushed
             /\ persistedQueue' = saveQueue(queue')
             /\ extractedPatterns' = IF committed THEN patterns ELSE extractedPatterns
             /\ cpc' = IF committed THEN "start" ELSE "idle"
             /\ last' = [op |-> "capture", event |-> <<event>>, size |-> Len(pushed),
                         effects |-> {"append", "save"}
                            \cup (IF triggered /\ asked THEN {"prompt"} ELSE {})
                            \cup (IF extracted THEN {"extract"} ELSE {})
                            \cup (IF committed THEN {"store", "clear", "command"} ELSE {}),
                         found |-> Len(patterns),
                         done |-> ~committed]
     /\ UNCHANGED <<libVars, clock, repoVars, apiToken, callVars>>

\* LearningCapture.clearQueue
clearQueue ==
  /\ cpc = "idle"
  /\ queue' = <<>>
  /\ persistedQueue' = saveQueue(queue')
  /\ last' = [NoCall EXCEPT !.op = "clearQueue", !.effects = {"clear", "save"}]
  /\ UNCHANGED <<libVars, captures, extractedPatterns, clock, repoVars, apiToken, cpc, callVars>>

\* LearningDashboard.clearQueue: only the persisted queue is written
DashboardClearQueue ==
  /\ cpc = "idle"
  /\ persistedQueue' = <<>>
  /\ last' = [NoCall EXCEPT !.op = "dashboardClear"]
  /\ UNCHANGED <<libVars, queue, captures, extractedPatterns, clock, repoVars, apiToken, cpc,
                 callVars>>

----------------------------------------------------------------------------
(* The dimag.commitLearnings command and GitCommitter *)

\* the command run on its own (it is a registered command)
InvokeCommitLearnings ==
  /\ cpc = "idle"
  /\ commits < MaxCommits
  /\ cpc' = "start"
  /\ last' = [NoCall EXCEPT !.op = "command", !.done = FALSE]
  /\ UNCHANGED <<libVars, queueVars, extractedPatterns, clock, repoVars, apiToken, callVars>>

\* the command's return
Return == cpc' = "idle" /\ last' = [last EXCEPT !.done = TRUE]

\* the command up to commitPatterns' first await: GitCommitter.initialize, the
\* read of extractedPatterns, and the check of this.git
CommitLearnings ==
  /\ cpc = "start"
  /\ IF extractedPatterns = <<>>
     THEN Return /\ UNCHANGED callVars
     ELSE /\ batch' = extractedPatterns
          /\ commits' = commits + 1
          /\ log' = <<>>
          /\ t1' = NoResult
          /\ reply' = NoReply
          /\ result' = IF brainRepo THEN NoResult
                       ELSE Result(FALSE, "failed", NoHash, {"Git not initialized"})
          /\ cpc' = IF brainRepo THEN "merge" ELSE "finish"
          /\ UNCHANGED last
  /\ UNCHANGED <<libVars, queueVars, extractedPatterns, clock, repoVars, apiToken>>

AfterTier1Always(r) == "fallback"

\* commitPatterns after commitWithVSCodeGit returned r: return it if it
\* succeeded, else go on with commitWithBackendAPI
AfterTier1(r) == IF r.success THEN "finish" ELSE "fallback"

Tier1Returns(r) ==
  /\ t1' = r
  /\ result' = IF AfterTier1(r) = "finish" THEN r ELSE result
  /\ cpc' = AfterTier1(r)

\* commitWithVSCodeGit's catch: an exception of any step before the push
Tier1Throws(message) == Tier1Returns(Result(FALSE, "vscode-git", NoHash, {message}))

\* updatePatternFiles: both files written
Merge ==
  /\ cpc = "merge"
  /\ store' = MergedStore(store, batch, clock)
  /\ stats' = UpdatedStats(stats, batch, clock)
  /\ treeDirty' = TRUE
  /\ log' = Append(log, "merge")
  /\ cpc' = "stage"
  /\ UNCHANGED <<libVars, queueVars, extractedPatterns, clock, last, brainRepo,
                 unpushed, apiToken, batch, t1, reply, result, commits>>

\* updatePatternFiles: a writeFile throws, the store's or the statistics'
MergeFails ==
  /\ cpc = "merge"
  /\ \E storeWritten \in BOOLEAN :
       /\ store' = IF storeWritten THEN MergedStore(store, batch, clock) ELSE store
       /\ treeDirty' = (treeDirty \/ storeWritten)
  /\ log' = Append(log, "merge failed")
  /\ Tier1Throws("EACCES")
  /\ UNCHANGED <<libVars, queueVars, extractedPatterns, clock, last, brainRepo,
                 stats, unpushed, apiToken, batch, reply, commits>>

\* addConfig, add('.'), status, and commit
StageAndCommit ==
  /\ cpc = "stage"
  /\ log' = Append(log, "commit")
  /\ IF ~treeDirty
     THEN /\ Tier1Returns(Result(FALSE, "vscode-git", NoHash, {"No changes to commit"}))
          /\ UNCHANGED <<treeDirty, unpushed>>
     ELSE /\ treeDirty' = FALSE
          /\ unpushed' = unpushed + 1
          /\ cpc' = "push"
          /\ UNCHANGED <<t1, result>>
  /\ UNCHANGED <<libVars, queueVars, extractedPatterns, clock, last, brainRepo,
                 store, stats, apiToken, batch, reply, commits>>

\* a git call before the push throws
StageFails ==
  /\ cpc = "stage"
  /\ log' = Append(log, "commit failed")
  /\ Tier1Throws("git error")
  /\ UNCHANGED <<libVars, queueVars, extractedPatterns, clock, last, repoVars, apiToken, batch,
                 reply, commits>>

Push ==
  /\ cpc = "push"
  /\ log' = Append(log, "push")
  /\ unpushed' = 0
  /\ Tier1Returns(Result(TRUE, "vscode-git", <<"git", "local">>, {}))
  /\ UNCHANGED <<libVars, queueVars, extractedPatterns, clock, last, brainRepo,
                 store, stats, treeDirty, apiToken, batch, reply, commits>>

PushFails ==
  /\ cpc = "push"
  /\ log' = Append(log, "push failed")
  /\ Tier1Returns(Result(FALSE, "vscode-git", NoHash,
                         {"Commit succeeded but push failed", "Authentication failed"}))
  /\ UNCHANGED <<libVars, queueVars, extractedPatterns, clock, last, repoVars, apiToken, batch,
                 reply, commits>>

\* commitWithBackendAPI up to the fetch: getOrCreateAPIToken. signedIn: the
\* user chose 'Sign In' and entered a token.
GetToken(signedIn) ==
  /\ cpc = "fallback"
  /\ log' = Append(log, "token")
  /\ IF apiToken \/ signedIn
     THEN /\ apiToken' = TRUE
          /\ cpc' = "fetch"
          /\ UNCHANGED result
     ELSE /\ result' = Result(FALSE, "backend-api", NoHash, {"No API token available"})
          /\ cpc' = "finish"
          /\ UNCHANGED apiToken
  /\ UNCHANGED <<libVars, queueVars, extractedPatterns, clock, last, repoVars, batch, t1, reply,
                 commits>>

\* the POST to the endpoint and its answer
Fetch(answer) ==
  /\ cpc = "fetch"
  /\ log' = Append(log, "http")
  /\ reply' = answer
  /\ cpc' = "reply"
  /\ UNCHANGED <<libVars, queueVars, extractedPatterns, clock, last, repoVars, apiToken, batch,
                 t1, result, commits>>

BackendResultOwnHash(answer) ==
  IF answer.kind = "ok"
  THEN Result(TRUE, "backend-api", <<"git", "local">>, {})
  ELSE Result(FALSE, "backend-api", NoHash, {answer.message})

\* commitWithBackendAPI's result from the endpoint's answer
BackendResult(answer) ==
  IF answer.kind = "ok"
  THEN Result(TRUE, "backend-api", answer.commitHash, {})
  ELSE Result(FALSE, "backend-api", NoHash, {answer.message})

BackendReturns ==
  /\ cpc = "reply"
  /\ result' = BackendResult(reply)
  /\ cpc' = "finish"
  /\ UNCHANGED <<libVars, queueVars, extractedPatterns, clock, last, repoVars, apiToken, batch,
                 t1, reply, log, commits>>

\* the command after commitPatterns returned
Finish ==
  /\ cpc = "finish"
  /\ extractedPatterns' = IF result.success THEN <<>> ELSE extractedPatterns
  /\ Return
  /\ UNCHANGED <<libVars, queueVars, clock, repoVars, apiToken, callVars>>

----------------------------------------------------------------------------

CommitSteps ==
  \/ CommitLearnings
  \/ Merge
  \/ MergeFails
  \/ StageAndCommit
  \/ StageFails
  \/ Push
  \/ PushFails
  \/ \E signedIn \in BOOLEAN : GetToken(signedIn)
  \/ \E answer \in Replies : Fetch(answer)
  \/ BackendReturns
  \/ Finish

\* the pipeline: captures, and the commits they trigger
Next ==
  \/ Tick
  \/ \E event \in EventPool, learningEnabled \in BOOLEAN, autoCommit \in BOOLEAN,
        choice \in {"Yes, Commit", "Not Now"} :
       CaptureDecision(event, learningEnabled, autoCommit, choice)
  \/ clearQueue
  \/ DashboardClearQueue
  \/ CommitSteps

Spec == Init /\ [][Next]_vars

\* the committer: the command run on the batches earlier sessions left
NextCommit ==
  \/ Tick
  \/ InvokeCommitLearnings
  \/ CommitSteps

SpecCommit == InitCommit /\ [][NextCommit]_vars

----------------------------------------------------------------------------
(* Properties of the committer, checked under SpecCommit *)

StorePatterns == IF store.file = "ok" THEN store.data.patterns ELSE <<>>

IdsOf(patterns) == { patterns[i].id : i \in 1..Len(patterns) }

CountId(patterns, id) == Cardinality({ i \in 1..Len(patterns) : patterns[i].id = id })

\* commitPatterns has returned and the command has not finished yet
Returned == cpc = "finish"

\* commitWithVSCodeGit ran and returned a failure
Tier1Failed == t1.authMethod = "vscode-git" /\ ~t1.success

Logged(step) == step \in Range(log)

\* C1: the ids of the patterns in the store file are pairwise distinct, also
\* after a merge of a batch that holds two patterns with one new id
C1_IdsDistinct ==
  \A i, j \in 1..Len(StorePatterns) :
    StorePatterns[i].id = StorePatterns[j].id => i = j

\* C2: metadata.totalPatterns is the number of entries of patterns, in the
\* store file after every merge and in the empty store initialize synthesizes
C2_TotalIsLength ==
  /\ store.file = "ok" =>
       store.data.metadata.totalPatterns = Len(store.data.patterns)
  /\ LET empty == createEmptyStructure(clock)
     IN /\ empty.file = "ok"
        /\ empty.data.patterns = <<>>
        /\ empty.data.metadata.totalPatterns = Len(empty.data.patterns)

C2_Witness ==
  /\ Logged("merge")
  /\ store.file = "ok"
  /\ Len(store.data.patterns) = 2
  /\ store.data.metadata.totalPatterns = 2

\* C3: a merge skips every pattern of the batch whose id the store already
\* holds; when the store holds every id of the batch, the list of patterns and
\* metadata.totalPatterns are after the merge what they were before it
C3_ReapplySkips ==
  [][ (cpc = "merge" /\ store.file = "ok" /\ store' # store)
      => /\ store'.file = "ok"
         /\ \A id \in IdsOf(store.data.patterns) :
              CountId(store'.data.patterns, id) = CountId(store.data.patterns, id)
         /\ IdsOf(batch) \subseteq IdsOf(store.data.patterns)
              => /\ store'.data.patterns = store.data.patterns
                 /\ store'.data.metadata.totalPatterns
                      = store.data.metadata.totalPatterns ]_vars

\* a merge has run on a batch of one pattern whose id the store held: the
\* statistics counted it a second time, the store did not
C3_Witness ==
  /\ cpc = "stage"
  /\ Len(batch) = 1
  /\ store.file = "ok" /\ Len(store.data.patterns) = 1
  /\ store.data.metadata.totalPatterns = 1
  /\ stats.file = "ok" /\ stats.data.totalPatterns = 2

\* C4: when the push of tier 1 failed and the endpoint of tier 2 answered with
\* a commit, commitPatterns returns success with authMethod 'backend-api' and
\* the commit hash of the endpoint's answer
C4_Tier2Result ==
  (Returned /\ Logged("push failed") /\ reply.kind = "ok")
    => /\ result.success
       /\ result.authMethod = "backend-api"
       /\ result.commitHash = reply.commitHash
       /\ result.commitHash # NoHash

C4_Witness ==
  /\ Returned /\ Logged("push failed") /\ reply.kind = "ok"
  /\ result.commitHash = <<"api", "h2">>

\* C5 as stated: the endpoint of tier 2 is called only after a push of tier 1
\* was attempted and failed
C5_OnlyAfterPushFailure ==
  \A j \in 1..Len(log) :
    log[j] = "http" => \E i \in 1..(j - 1) : log[i] = "push failed"

\* C5 as amended: tier 2 (the token lookup and the call of the endpoint) is
\* attempted only after tier 1 ran and returned a failure, of the merge, of the
\* staging or commit, or of the push; never after tier 1 succeeded
C5_OnlyAfterTier1Failure ==
  \A j \in 1..Len(log) :
    log[j] \in {"token", "http"}
      => /\ Tier1Failed
         /\ ~Logged("push")
         /\ \E i \in 1..(j - 1) :
              log[i] \in {"merge failed", "commit failed", "push failed"}

C5_Witness == Logged("http") /\ Logged("merge failed") /\ ~Logged("push failed")

\* C6: when both tiers failed, commitPatterns returns a failure whose error
\* carries the message of tier 1 and the message of tier 2
C6_BothMessages ==
  (Returned /\ Tier1Failed /\ Logged("token") /\ reply.kind # "ok")
    => /\ ~result.success
       /\ t1.error \subseteq result.error
       /\ reply.kind # "none" => reply.message \in result.error

----------------------------------------------------------------------------
(* Properties of the event queue, checked under Spec *)

\* the last handler was a captureDecision with learning enabled
Captured == last.op = "capture" /\ last.effects # {}

\* C7: a capture that leaves fewer events than the threshold in the queue only
\* appends its event: no extraction, no write of extracted patterns, no clearing
\* of the queue and no commit command
C7_BelowThresholdOnlyAppends ==
  [][ (captures' # captures /\ Len(queue) + 1 < COMMIT_THRESHOLD)
      => /\ \/ queue' = queue
            \/ \E event \in EventPool : queue' = Append(queue, event)
         /\ last'.effects \subseteq {"append", "save"}
         /\ last'.found = 0
         /\ extractedPatterns' = extractedPatterns
         /\ cpc' = "idle"
         /\ UNCHANGED <<repoVars, callVars>> ]_vars

\* the queue at 9 of 10 after a capture
C7_Witness ==
  /\ Captured /\ last.size = COMMIT_THRESHOLD - 1
  /\ Len(queue) = COMMIT_THRESHOLD - 1
  /\ last.effects = {"append", "save"}

\* C8 as stated: a capture runs the extractor only when it crosses the
\* threshold, that is when the queue was below the threshold before it
C8_OncePerCrossing ==
  [][ (captures' # captures /\ "extract" \in last'.effects)
      => Len(queue) < COMMIT_THRESHOLD ]_vars

\* C8 as amended: the extractor runs once in every capture that leaves the queue
\* at or above the threshold, unless the user declines the prompt shown when
\* autoCommit is off, and in no other capture; so it runs again in the captures
\* that follow a crossing for as long as the queue was not cleared
C8_EveryCaptureAtThreshold ==
  Captured
    => /\ "extract" \in last.effects => last.size >= COMMIT_THRESHOLD
       /\ last.size >= COMMIT_THRESHOLD
            => "extract" \in last.effects \/ "prompt" \in last.effects

\* the extractor ran in a capture that followed the crossing
C8_Witness ==
  Captured /\ "extract" \in last.effects /\ last.size = COMMIT_THRESHOLD + 1

\* C9 as stated: after a capture that ran the extractor the queue is empty, in
\* memory and in storage
C9_ClearedAfterAnyExtraction ==
  (Captured /\ "extract" \in last.effects)
    => queue = <<>> /\ persistedQueue = <<>>

\* C9 as amended: after a capture that ran the extractor the queue is empty, in
\* memory and in storage, if the extraction produced a pattern; if it produced
\* none the queue still holds every event, the captured one last
C9_ClearedIfPatternsFound ==
  (Captured /\ "extract" \in last.effects)
    => IF last.found > 0
       THEN queue = <<>> /\ persistedQueue = <<>>
       ELSE /\ Len(queue) = last.size
            /\ queue[Len(queue)] = last.event[1]
            /\ persistedQueue = queue

C9_Witness ==
  /\ Captured /\ "extract" \in last.effects /\ last.found = 0
  /\ Len(queue) >= COMMIT_THRESHOLD

\* C10: when a captureDecision (learning enabled) or a clearQueue has returned,
\* the persisted queue is the queue in memory, and the captured event is the
\* last element of both unless the extraction cleared the queue
C10_PersistedOnReturn ==
  (last.done /\ (Captured \/ last.op = "clearQueue"))
    => /\ persistedQueue = queue
       /\ Captured =>
            \/ "clear" \in last.effects /\ queue = <<>>
            \/ /\ queue # <<>>
               /\ queue[Len(queue)] = last.event[1]
               /\ persistedQueue[Len(persistedQueue)] = last.event[1]

C10_Witness ==
  /\ last.done /\ Captured
  /\ Len(queue) = 2 /\ persistedQueue = queue


----------------------------------------------------------------------------
(* The extractor called on the queues earlier sessions can have left *)

SeqsUpTo(S, n) == UNION { [1..k -> S] : k \in 0..n }

Approval(ctx) == Event("APPROVAL", ctx, "s1", 80, NoValue, "APPROVED", "success")

\* captureCorrection, and a captureApproval whose outcome reports a failure
evCorrection == Event("CORRECTION", DeployContext, "s5", 70, NoValue, "MODIFIED", "none")
evFailedApproval == Event("APPROVAL", DeployContext, "s6", 80, NoValue, "APPROVED", "failure")

ApiContext ==
  [projectType |-> "api", technologies |-> <<"react", "node">>, problemType |-> "error-build"]
ApiDockerContext ==
  [projectType |-> "api", technologies |-> <<"docker">>, problemType |-> "error-build"]

ExtractPool ==
  { evApproval, evRejection, evCorrection, evFailedApproval, evDecision,
    Approval(ApiContext), Approval(ApiDockerContext) }

\* ten approvals of one context with two technologies, a project type and a
\* deployment problem
ScenarioQueues ==
  { Repeat(Event("APPROVAL",
                 [projectType |-> pt, technologies |-> ts, problemType |-> "deployment-x"],
                 "s1", 80, NoValue, "APPROVED", outcome), COMMIT_THRESHOLD) :
      pt \in {"Web", "api"}, ts \in {<<"react", "node">>, <<"docker", "node">>},
      outcome \in {"success", "none"} }

ExtractQueues == SeqsUpTo(ExtractPool, MaxEvents) \cup ScenarioQueues \cup {TwinQueue}

\* the index in groups of the group the k-th event is put into: the group
\* groups.find returns, or the new group pushed at the end
GroupIndex(events, k) ==
  LET groups == GroupFrom(<<>>, SubSeq(events, 1, k - 1))
      m == MatchedGroup(groups, events[k])
  IN IF m # 0 THEN m ELSE Len(groups) + 1

InitExtract ==
  /\ InitFrom(ExtractQueues, {<<>>}, {FreshRepo})
  /\ brainRepo = FALSE
  /\ LibIdle

\* LearningCapture.extractPatterns (public) called on the queue
ExtractPatterns ==
  /\ cpc = "idle"
  /\ ret' = [op |-> "extractPatterns",
             groups |-> groupSimilarEvents(queue),
             groupOf |-> [k \in 1..Len(queue) |-> GroupIndex(queue, k)],
             patterns |-> extractPatterns(queue, clock)]
  /\ UNCHANGED <<pipelineVars, clock, syncVars, matcherVars>>

NextExtract ==
  \/ Tick
  \/ ExtractPatterns

SpecExtract == InitExtract /\ [][NextExtract]_vars

----------------------------------------------------------------------------
(* Properties of the extractor, checked under SpecExtract *)

Extracted == ret.op = "extractPatterns"

TechSet(e) == Range(Techs(e.context))

\* |A n B| / |A u B| >= 0.5 for the technology sets of two events
JaccardHalf(e1, e2) ==
  /\ TechSet(e1) \cup TechSet(e2) # {}
  /\ 2 * Cardinality(TechSet(e1) \cap TechSet(e2))
       >= Cardinality(TechSet(e1) \cup TechSet(e2))

\* no common technology, and project types and problem types that both have and
\* that differ
Unrelated(e1, e2) ==
  /\ TechSet(e1) \cap TechSet(e2) = {}
  /\ Get(e1.context, "projectType") # NoValue
  /\ Get(e2.context, "projectType") # NoValue
  /\ e1.context.projectType # e2.context.projectType
  /\ Get(e1.context, "problemType") # NoValue
  /\ Get(e2.context, "problemType") # NoValue
  /\ e1.context.problemType # e2.context.problemType

\* a ratio within [0, 1]
InUnit(r) == r.den > 0 /\ 0 <= r.num /\ r.num <= r.den

\* C11: two events of the queue whose technology sets overlap by at least a half
\* (Jaccard) are put into the same group by the grouping step
C11_OverlapSameGroup ==
  Extracted =>
    \A i, j \in 1..Len(queue) :
      JaccardHalf(queue[i], queue[j]) => ret.groupOf[i] = ret.groupOf[j]

\* C12: two events of the queue without a common technology, with different
\* project types and different problem types are put into different groups
C12_UnrelatedApart ==
  Extracted =>
    \A i, j \in 1..Len(queue) :
      Unrelated(queue[i], queue[j]) => ret.groupOf[i] # ret.groupOf[j]

\* C13: for any mix of approved, rejected and modified events with confidences
\* in [0, 1], the confidence, the success rate and the average confidence of
\* every extracted pattern are within [0, 1]
C13_RatiosInUnit ==
  Extracted =>
    \A i \in 1..Len(ret.patterns) :
      /\ InUnit(ret.patterns[i].pattern.confidence)
      /\ InUnit(ret.patterns[i].metadata.successRate)
      /\ InUnit(ret.patterns[i].pattern.solution.averageConfidence)

C13_Witness ==
  /\ Extracted
  /\ {"REJECTED", "MODIFIED"} \subseteq { queue[i].userAction : i \in 1..Len(queue) }
  /\ \E i \in 1..Len(ret.patterns) :
       /\ 0 < ret.patterns[i].metadata.successRate.num
       /\ ret.patterns[i].metadata.successRate.num < ret.patterns[i].metadata.successRate.den

----------------------------------------------------------------------------
(* PatternMatcher, and the read of the store file by LearningSync           *)
(*                                                                         *)
(* A score is an exact ratio [num, den]; on the values of this model the    *)
(* double-precision evaluation of the source compares the same way.        *)

\* 30 minutes, in ticks of the clock
CACHE_TTL == 1

\* a.num / a.den > b.num / b.den, for positive denominators
RatioGT(a, b) == a.num * b.den > b.num * a.den

Tenths(n) == [num |-> n, den |-> 10]

LargerSum(a, b) == a + b

Larger(a, b) == IF a >= b THEN a ELSE b

\* String.includes on the vocabulary of intents and approaches
Contains(s, sub) ==
  \/ sub = ""
  \/ s = sub
  \/ s = "retry deployment" /\ sub = "retry"

\* the keyword lists of areSimilarProblemTypes a problem type falls into
Buckets(t) ==
  CASE t \in {"deployment-x", "hosting"} -> {"deployment"}
    [] t \in {"error-build", "crash"}    -> {"error"}
    [] t = "performance-z"               -> {"performance"}
    [] t = "architecture-y"              -> {"architecture"}
    [] OTHER                             -> {}

\* the problem types of the model are in lower case
areSimilarProblemTypes(type1, type2) ==
  \/ type1 = type2
  \/ Buckets(type1) \cap Buckets(type2) # {}

\* solution.requiredTechnologies is not a field of an extracted pattern
calculateApplicability(pattern, projectContext) ==
  LET rate == pattern.metadata.successRate
  IN IF rate.num # 0
     THEN [num |-> 3 * rate.den + 4 * rate.num, den |-> 10 * rate.den]
     ELSE [num |-> 1, den |-> 2]

scorePattern(pattern, intent, projectContext) ==
  LET pc == pattern.pattern.context
      sameProject ==
        /\ Get(pc, "projectType") # NoValue
        /\ Get(projectContext, "projectType") # NoValue
        /\ pc.projectType = projectContext.projectType
      patternTechs == Range(Techs(pc))
      projectTechs == Range(Techs(projectContext))
      intersection == Cardinality(patternTechs \cap projectTechs)
      larger == Larger(Cardinality(patternTechs), Cardinality(projectTechs))
      \* overlapRatio > 0; 0/0 is NaN, and NaN > 0 is false
      overlaps ==
        /\ "technologies" \in DOMAIN pc
        /\ "technologies" \in DOMAIN projectContext
        /\ larger > 0
        /\ intersection > 0
      sameProblem ==
        /\ Get(pc, "problemType") # NoValue
        /\ Get(projectContext, "problemType") # NoValue
        /\ areSimilarProblemTypes(pc.problemType, projectContext.problemType)
      approach == pattern.pattern.solution.approach
      sameIntent ==
        /\ approach # NoValue
        /\ Contains(intent, approach) \/ Contains(approach, intent)
      m == IF overlaps THEN larger ELSE 1
      \* score = 0.3 + overlapRatio * 0.4 + 0.2 + 0.1, over 10 * m
      raw == [num |-> m * ((IF sameProject THEN 3 ELSE 0) + (IF sameProblem THEN 2 ELSE 0)
                           + (IF sameIntent THEN 1 ELSE 0))
                      + (IF overlaps THEN 4 * intersection ELSE 0),
              den |-> 10 * m]
      \* pattern.pattern.confidence || 0.5
      historicalConfidence ==
        IF pattern.pattern.confidence.num # 0 THEN pattern.pattern.confidence
        ELSE [num |-> 1, den |-> 2]
      score == [num |-> 7 * raw.num * historicalConfidence.den
                        + 3 * historicalConfidence.num * raw.den,
                den |-> 10 * raw.den * historicalConfidence.den]
  IN [pattern |-> pattern,
      confidence |-> IF score.num > score.den
                     THEN [num |-> score.den, den |-> score.den] ELSE score,
      reasoning |-> (IF sameProject THEN <<"Same project type">> ELSE <<>>)
                    \o (IF overlaps THEN <<"Technology overlap">> ELSE <<>>)
                    \o (IF sameProblem THEN <<"Similar problem">> ELSE <<>>)
                    \o (IF sameIntent THEN <<"Intent matches approach">> ELSE <<>>),
      applicability |-> calculateApplicability(pattern, projectContext)]

\* Array.prototype.sort((a, b) => b.confidence - a.confidence): stable,
\* descending
RECURSIVE SortByConfidence(_)
SortByConfidence(matches) ==
  IF matches = <<>> THEN <<>>
  ELSE LET rest == SortByConfidence(SubSeq(matches, 1, Len(matches) - 1))
           x == matches[Len(matches)]
           k == Cardinality({ i \in 1..Len(rest) :
                               ~RatioGT(x.confidence, rest[i].confidence) })
       IN SubSeq(rest, 1, k) \o <<x>> \o SubSeq(rest, k + 1, Len(rest))

Scored(patterns, intent, projectContext) ==
  [i \in 1..Len(patterns) |-> scorePattern(patterns[i], intent, projectContext)]

\* findMatch after getPatterns: <<>> stands for null, <<m>> for the match m
findMatch(patterns, intent, projectContext) ==
  LET matches == SortByConfidence(Filter(Scored(patterns, intent, projectContext),
                                         LAMBDA match : RatioGT(match.confidence, Tenths(6))))
  IN IF Len(patterns) = 0 \/ matches = <<>> THEN <<>> ELSE <<matches[1]>>

findAllMatchesUnsorted(patterns, intent, projectContext) ==
  Filter(Scored(patterns, intent, projectContext),
         LAMBDA match : RatioGT(match.confidence, Tenths(5)))

\* findAllMatches after getPatterns
findAllMatches(patterns, intent, projectContext) ==
  SortByConfidence(Filter(Scored(patterns, intent, projectContext),
                          LAMBDA match : RatioGT(match.confidence, Tenths(5))))

loadAllPatternsStrict(file) ==
  [threw |-> file.file # "ok",
   value |-> IF file.file = "ok" THEN file.data.patterns ELSE <<>>]

\* LearningSync.loadAllPatterns: a read or a parse that fails is caught
loadAllPatterns(file) ==
  [threw |-> FALSE,
   value |-> IF file.file = "ok" THEN file.data.patterns ELSE <<>>]


\* batches extracted by earlier sessions (at time 0) and published to the store
TechContext == [technologies |-> <<"react", "node">>]
FullBatch == extractPatterns(<<evApproval, evApproval>>, 0)
TechBatch == extractPatterns(<<Approval(TechContext), Approval(TechContext)>>, 0)
ApiBatch == extractPatterns(<<Approval(ApiContext), Approval(ApiContext)>>, 0)
HalfBatch == extractPatterns(<<evApproval, evApproval, evRejection, evCorrection>>, 0)
\* a pattern of approvals that all failed: its stored confidence is 0
FailedBatch == extractPatterns(<<evFailedApproval, evFailedApproval>>, 0)
TwinBatch == extractPatterns(TwinQueue, 0)

\* the store file of the working copy the matcher reads
MatchStores ==
  { MergedStore(MissingFile, b, 0) :
      b \in { TechBatch, ApiBatch \o FullBatch \o TechBatch, TwinBatch \o HalfBatch,
              FullBatch \o TwinBatch, FailedBatch \o ApiBatch } }
  \cup { createEmptyStructure(0), MissingFile, UnparsableFile }

\* the context argument of a call, or what detectProjectContext returns: the
\* contexts of stored patterns, a workspace without known technologies, no
\* workspace, and a project that matches in part
LiveContexts ==
  { FullBatch[1].pattern.context, TechBatch[1].pattern.context,
    TwinBatch[1].pattern.context,
    [projectType |-> "Unknown", technologies |-> <<>>],
    EmptyMap,
    [projectType |-> "Web", technologies |-> <<"react">>, problemType |-> "hosting"],
    [projectType |-> "api", technologies |-> <<"react", "docker">>,
     problemType |-> "crash"] }

Intents == {"", "retry deployment", "cache"}

InitMatch ==
  /\ InitFrom({<<>>}, {<<>>}, {FreshRepo})
  /\ brainRepo = FALSE
  /\ git = TRUE
  /\ syncGitDir = TRUE
  /\ syncHead = <<"r0">>
  /\ origin = <<"r0">>
  /\ syncStore \in MatchStores
  /\ cachedPatterns = <<>>
  /\ cacheExpiry = 0
  /\ ret = NoRet
  /\ autoSync = NoTimer
  /\ NoRace

\* getPatterns: the cached list while it is not empty and not expired, else
\* the list loaded from the store
CacheValidForever == Len(cachedPatterns) > 0

CacheValid == Len(cachedPatterns) > 0 /\ clock < cacheExpiry

PatternsRead == IF CacheValid THEN cachedPatterns ELSE loadAllPatterns(syncStore).value

ReadThrows == ~CacheValid /\ loadAllPatterns(syncStore).threw

getPatterns ==
  IF CacheValid \/ ReadThrows
  THEN UNCHANGED matcherVars
  ELSE /\ cachedPatterns' = PatternsRead
       /\ cacheExpiry' = clock + CACHE_TTL

\* what a call of the matcher returns, or that it threw; cached: getPatterns
\* returned the cached list
Answer(op, intent, projectContext, value) ==
  [op |-> op, intent |-> intent, context |-> projectContext,
   patterns |-> PatternsRead, cached |-> CacheValid, threw |-> ReadThrows,
   value |-> IF ReadThrows THEN <<>> ELSE value]

FindMatch(intent, projectContext) ==
  /\ getPatterns
  /\ ret' = Answer("findMatch", intent, projectContext,
                   findMatch(PatternsRead, intent, projectContext))
  /\ UNCHANGED <<pipelineVars, clock, syncVars>>

FindAllMatches(intent, projectContext) ==
  /\ getPatterns
  /\ ret' = Answer("findAllMatches", intent, projectContext,
                   findAllMatches(PatternsRead, intent, projectContext))
  /\ UNCHANGED <<pipelineVars, clock, syncVars>>

NextMatch ==
  \/ Tick
  \/ \E intent \in Intents, projectContext \in LiveContexts :
       FindMatch(intent, projectContext)
  \/ \E intent \in Intents, projectContext \in LiveContexts :
       FindAllMatches(intent, projectContext)

SpecMatch == InitMatch /\ [][NextMatch]_vars

----------------------------------------------------------------------------
(* Properties of the matcher, checked under SpecMatch *)

\* the confidence the matcher computes for the k-th pattern it read
ConfidenceOf(k) == scorePattern(ret.patterns[k], ret.intent, ret.context).confidence

Accepted(k, bar) == RatioGT(ConfidenceOf(k), Tenths(bar))

\* C15: a pattern whose context equals the live context and whose historical
\* confidence is 1.0 has a match confidence above 0.6, and findMatch returns a
\* match
C15_ExactMatchAccepted ==
  ret.op = "findMatch" =>
    \A k \in 1..Len(ret.patterns) :
      ( /\ ret.patterns[k].pattern.context = ret.context
        /\ ret.patterns[k].pattern.confidence.num = ret.patterns[k].pattern.confidence.den )
      => Accepted(k, 6) /\ ret.value # <<>>

\* C16: findMatch returns the first pattern of the highest confidence if that
\* confidence is above 0.6 and null otherwise; findAllMatches returns the
\* patterns of confidence above 0.5, by descending confidence, equal
\* confidences in the order of the store
C16_BarsAndOrder ==
  /\ ret.op = "findMatch" =>
       IF \E k \in 1..Len(ret.patterns) : Accepted(k, 6)
       THEN \E k \in 1..Len(ret.patterns) :
              /\ ret.value = <<scorePattern(ret.patterns[k], ret.intent, ret.context)>>
              /\ Accepted(k, 6)
              /\ \A j \in 1..Len(ret.patterns) : ~RatioGT(ConfidenceOf(j), ConfidenceOf(k))
              /\ \A j \in 1..(k - 1) : RatioGT(ConfidenceOf(k), ConfidenceOf(j))
       ELSE ret.value = <<>>
  /\ ret.op = "findAllMatches" =>
       LET above == { k \in 1..Len(ret.patterns) : Accepted(k, 5) }
       IN /\ Len(ret.value) = Cardinality(above)
          /\ \E f \in [1..Len(ret.value) -> above] :
               /\ \A i \in 1..Len(ret.value) :
                    ret.value[i] = scorePattern(ret.patterns[f[i]], ret.intent, ret.context)
               /\ \A i, j \in 1..Len(ret.value) :
                    i < j => \/ RatioGT(ConfidenceOf(f[i]), ConfidenceOf(f[j]))
                             \/ /\ ~RatioGT(ConfidenceOf(f[j]), ConfidenceOf(f[i]))
                                /\ f[i] < f[j]

\* a store whose second pattern scores highest and whose first and third tie
\* between the bars: all three are returned, none by findMatch's bar but one
C16_Witness ==
  /\ ret.op = "findAllMatches"
  /\ Len(ret.patterns) = 3 /\ Len(ret.value) = 3
  /\ ret.value[1].pattern = ret.patterns[2]
  /\ ret.value[2].pattern = ret.patterns[1]
  /\ ~Accepted(1, 6) /\ ~Accepted(3, 6)
  /\ ~RatioGT(ConfidenceOf(1), ConfidenceOf(3)) /\ ~RatioGT(ConfidenceOf(3), ConfidenceOf(1))


----------------------------------------------------------------------------
(* LearningSync: the working copy <globalStorage>/dimag and origin/main     *)
(*                                                                         *)
(* A history is the sequence of its revisions, oldest first. The revisions  *)
(* of origin/main are 1, 2, ...; 0 is a commit that only the working copy   *)
(* has.                                                                    *)

MaxRevs == 3

\* the interval timers created in a run
MaxTimers == 2

IsPrefix(s, t) == Len(s) <= Len(t) /\ SubSeq(t, 1, Len(s)) = s

\* the store file as of a revision: none yet at the first, a published batch,
\* a file that does not parse
RevStore(rev) ==
  CASE rev = 0     -> MergedStore(MissingFile, TechBatch, 0)
    [] rev = 1     -> MissingFile
    [] rev % 2 = 0 -> MergedStore(MissingFile, FullBatch, 0)
    [] OTHER       -> UnparsableFile

\* the messages of git when the host cannot be reached
NetworkErrors == {"Could not resolve host", "Could not read from remote repository"}

IsNotFoundNever(message) == FALSE

\* error.message?.includes('not found') || error.message?.includes('repository')
IsNotFound(message) ==
  message \in {"repository not found", "Could not read from remote repository",
               "not a git repository"}

UpdatedOnPull(beforeSync, afterSync) == TRUE

\* const updated = beforeSync !== afterSync
Updated(beforeSync, afterSync) == beforeSync # afterSync

\* what earlier sessions left in <globalStorage>/dimag: nothing, a clone that
\* is at or behind origin/main, a clone with a commit of its own
WorkingCopies ==
  { [gitDir |-> FALSE, head |-> <<>>, store |-> MissingFile],
    [gitDir |-> TRUE, head |-> <<1>>, store |-> RevStore(1)],
    [gitDir |-> TRUE, head |-> <<1, 2>>, store |-> RevStore(2)],
    [gitDir |-> TRUE, head |-> <<1, 0>>, store |-> RevStore(0)] }

InitSync ==
  /\ InitFrom({<<>>}, {<<>>}, {FreshRepo})
  /\ brainRepo = FALSE
  /\ git = FALSE
  /\ \E w \in WorkingCopies :
       syncGitDir = w.gitDir /\ syncHead = w.head /\ syncStore = w.store
  /\ origin \in {<<>>, <<1>>, <<1, 2>>}
  /\ cachedPatterns = <<>>
  /\ cacheExpiry = 0
  /\ ret = NoRet
  /\ autoSync = NoTimer
  /\ NoRace

\* somebody publishes to origin/main (the first time: creates the remote)
RemoteAdvance ==
  /\ Len(origin) < MaxRevs
  /\ origin' = Append(origin, Len(origin) + 1)
  /\ UNCHANGED <<pipelineVars, clock, git, syncGitDir, syncHead, syncStore, matcherVars, ret,
                 autoSync>>

\* what revparse and pull --ff-only meet
PullOutcome(net) ==
  IF ~syncGitDir THEN "no repository"
  ELSE IF net = "down" THEN "network"
  ELSE IF origin = <<>> THEN "no remote"
  ELSE IF IsPrefix(origin, syncHead) THEN "up to date"
  ELSE IF IsPrefix(syncHead, origin) THEN "fast-forward"
  ELSE "diverged"

PullError(outcome, netError) ==
  CASE outcome = "no repository" -> "not a git repository"
    [] outcome = "network"       -> netError
    [] outcome = "no remote"     -> "repository not found"
    [] outcome = "diverged"      -> "Not possible to fast-forward"
    [] OTHER                     -> NoValue

\* LearningSync.sync, called by the interval's callback (by = "timer": one of
\* the timers fires) or by forceSync (by = "manual"). It has no throw outside
\* its try; its catch returns. shown: the notification it shows. On an update
\* it runs the command dimag.reloadPatterns, whose handler writes a line to
\* the console and nothing else.
Sync(by, net, netError) ==
  LET outcome == IF git THEN PullOutcome(net) ELSE "uninitialized"
      message == PullError(outcome, netError)
      afterSync == IF outcome = "fast-forward" THEN origin ELSE syncHead
      updated == outcome \in {"up to date", "fast-forward"} /\ Updated(syncHead, afterSync)
  IN /\ by = "timer" => autoSync.timers # {}
     /\ syncHead' = afterSync
     /\ syncStore' = IF outcome = "fast-forward" THEN RevStore(origin[Len(origin)])
                     ELSE syncStore
     /\ ret' = [op |-> "sync", by |-> by, pull |-> outcome, threw |-> FALSE,
                updated |-> updated,
                errors |-> IF outcome = "uninitialized" THEN <<"Git not initialized">>
                           ELSE IF message = NoValue THEN <<>>
                           ELSE IF IsNotFound(message) THEN <<"Repository not created yet">>
                           ELSE <<message>>,
                shown |-> IF updated THEN {"synced"} ELSE {},
                before |-> syncHead, after |-> afterSync, remote |-> origin,
                storeBefore |-> syncStore]
     /\ UNCHANGED <<pipelineVars, clock, git, syncGitDir, origin, matcherVars, autoSync>>

\* what the clone of cloneRepo meets
CloneOutcome(net) ==
  IF syncStore # MissingFile THEN "exists"
  ELSE IF net = "down" THEN "network"
  ELSE IF origin = <<>> THEN "no remote"
  ELSE "cloned"

CloneError(outcome, netError) ==
  CASE outcome = "exists"    -> "destination path already exists"
    [] outcome = "network"   -> netError
    [] outcome = "no remote" -> "repository not found"
    [] OTHER                 -> NoValue

\* LearningSync.initialize of a session, on a new LearningSync (no timer yet).
\* With a working copy it calls sync, which returns at once because git is
\* still unset; without one it clones.
Initialize(net, netError) ==
  LET outcome == IF syncGitDir THEN "synced" ELSE CloneOutcome(net)
      message == CloneError(outcome, netError)
      failed == message # NoValue
      synthesized == failed /\ IsNotFound(message)
      rethrown == failed /\ ~IsNotFound(message)
  IN /\ ~git
     /\ syncGitDir' = (syncGitDir \/ outcome = "cloned")
     /\ syncHead' = IF outcome = "cloned" THEN origin ELSE syncHead
     /\ syncStore' = IF outcome = "cloned" THEN RevStore(origin[Len(origin)])
                     ELSE IF synthesized THEN createEmptyStructure(clock)
                     ELSE syncStore
     /\ git' = ~rethrown
     /\ autoSync' = [NoTimer EXCEPT !.made = autoSync.made]
     /\ ret' = [op |-> "initialize", had |-> syncGitDir, clone |-> outcome,
                message |-> message, threw |-> FALSE,
                shown |-> IF rethrown THEN {"Could not initialize"}
                          ELSE IF outcome = "cloned" THEN {"synchronized"} ELSE {},
                storeBefore |-> syncStore]
     /\ UNCHANGED <<pipelineVars, clock, origin, matcherVars>>

\* the session ends, and the extension host with its timers: the next one
\* starts with a new LearningSync and a new PatternMatcher
Deactivate ==
  /\ git
  /\ git' = FALSE
  /\ cachedPatterns' = <<>>
  /\ cacheExpiry' = 0
  /\ autoSync' = [NoTimer EXCEPT !.made = autoSync.made]
  /\ UNCHANGED <<pipelineVars, clock, syncGitDir, syncHead, syncStore, origin, ret>>

clearIntervalKeeps(timers, handle) == timers

\* clearInterval(this.autoSyncInterval): the timers that stay active
clearInterval(timers, handle) == timers \ {handle}

\* startAutoSync. enabled: the setting learning.autoSync read by the call
StartAutoSync(enabled) ==
  /\ autoSync.made < MaxTimers
  /\ autoSync' =
       IF ~enabled THEN [autoSync EXCEPT !.op = "start"]
       ELSE [timers |-> clearInterval(autoSync.timers, autoSync.handle)
                          \cup {autoSync.made + 1},
             handle |-> autoSync.made + 1,
             made |-> autoSync.made + 1,
             op |-> "start"]
  /\ UNCHANGED <<pipelineVars, clock, git, syncGitDir, syncHead, syncStore, origin,
                 matcherVars, ret>>

StopTimer(op) ==
  /\ autoSync' = [autoSync EXCEPT
                    !.timers = clearInterval(autoSync.timers, autoSync.handle),
                    !.handle = 0,
                    !.op = op]
  /\ UNCHANGED <<pipelineVars, clock, git, syncGitDir, syncHead, syncStore, origin,
                 matcherVars, ret>>

StopAutoSync == StopTimer("stop")

\* dispose: stopAutoSync
Dispose == StopTimer("dispose")

\* PatternMatcher.reloadPatterns
ReloadPatterns ==
  /\ ~loadAllPatterns(syncStore).threw
  /\ cachedPatterns' = loadAllPatterns(syncStore).value
  /\ cacheExpiry' = clock + CACHE_TTL
  /\ ret' = [op |-> "reloadPatterns", threw |-> FALSE]
  /\ UNCHANGED <<pipelineVars, clock, syncVars>>

LoadAllPatterns ==
  /\ ret' = [op |-> "loadAllPatterns", file |-> syncStore.file,
             threw |-> loadAllPatterns(syncStore).threw,
             value |-> loadAllPatterns(syncStore).value]
  /\ UNCHANGED <<pipelineVars, clock, syncVars, matcherVars>>

NextSync ==
  \/ Tick
  \/ RemoteAdvance
  \/ \E net \in {"up", "down"}, netError \in NetworkErrors : Initialize(net, netError)
  \/ \E by \in {"manual", "timer"}, net \in {"up", "down"}, netError \in NetworkErrors :
       Sync(by, net, netError)
  \/ Deactivate
  \/ \E enabled \in BOOLEAN : StartAutoSync(enabled)
  \/ StopAutoSync
  \/ Dispose
  \/ ReloadPatterns
  \/ LoadAllPatterns
  \/ FindMatch("", FullBatch[1].pattern.context)
  \/ FindAllMatches("", FullBatch[1].pattern.context)

SpecSync == InitSync /\ [][NextSync]_vars


----------------------------------------------------------------------------
(* Properties of the synchronizer, checked under SpecSync *)

Synced == ret.op = "sync"

Initialized == ret.op = "initialize"

\* an empty store file with the fields of the schema
EmptyValid(f) ==
  /\ f.file = "ok"
  /\ f.data.patterns = <<>>
  /\ f.data.metadata.totalPatterns = 0
  /\ f.data.metadata.version # NoValue

\* C17: sync reports updated exactly if HEAD after the pull differs from HEAD
\* before it; when origin/main is where HEAD is, it reports no update and
\* changes neither the store file nor the statistics nor the matcher's cache
C17_UpdatedIffPointerMoved ==
  /\ [](Synced => /\ ret.after = syncHead
                  /\ ret.updated <=> ret.after # ret.before)
  /\ [][(ret'.op = "sync" /\ ret' # ret /\ ret'.remote = ret'.before)
          => /\ ~ret'.updated
             /\ syncStore' = syncStore /\ syncHead' = syncHead
             /\ store' = store /\ stats' = stats
             /\ UNCHANGED matcherVars]_vars

C17_Witness ==
  /\ Synced /\ git
  /\ ret.pull = "up to date" /\ ret.remote = ret.before
  /\ ~ret.updated /\ ret.errors = <<>>
  /\ syncStore.file = "ok"

\* C18: a sync of a working copy whose history has diverged from origin/main
\* ends in an error that is raised or shown, unlike the result of a network
\* failure, and leaves HEAD and the store file as they were
C18_DivergenceIsHard ==
  (Synced /\ ret.pull = "diverged")
    => /\ ret.threw \/ ret.shown # {}
       /\ ret.after = ret.before
       /\ syncStore = ret.storeBefore

\* C19: sync does not throw and reports no update when the network fails or
\* the remote is missing; loadAllPatterns does not throw and returns the empty
\* list for a store file that is missing or does not parse, and so findMatch
\* and findAllMatches return without an error
C19_ReadsDegrade ==
  /\ Synced => /\ ~ret.threw
               /\ ret.pull \in {"network", "no remote"} => ~ret.updated
  /\ ret.op = "loadAllPatterns"
       => /\ ~ret.threw
          /\ ret.file # "ok" => ret.value = <<>>
  /\ ret.op \in {"findMatch", "findAllMatches"}
       => /\ ~ret.threw
          /\ ret.patterns = <<>> => ret.value = <<>>

C19_Witness ==
  /\ ret.op = "findMatch"
  /\ syncStore = UnparsableFile
  /\ ret.patterns = <<>> /\ ret.value = <<>> /\ ~ret.threw

\* C20 as stated: without a working copy, an initialize whose clone fails
\* because the remote cannot be reached or does not exist leaves an empty,
\* valid store file, which loadAllPatterns reads as the empty list
C20_CloneFailureLeavesStore ==
  (Initialized /\ ~ret.had /\ ret.clone \in {"network", "no remote"})
    => /\ ~ret.threw
       /\ EmptyValid(syncStore)
       /\ loadAllPatterns(syncStore).value = <<>>

\* C20: without a working copy, an initialize whose clone fails does not
\* throw, and loadAllPatterns reads the empty list afterwards; it leaves an
\* empty, valid store file if the error names a repository or says not found,
\* and otherwise shows a warning and leaves the store file as it was
C20_NotFoundLeavesStore ==
  (Initialized /\ ~ret.had /\ ret.clone # "cloned")
    => /\ ~ret.threw
       /\ loadAllPatterns(syncStore).value = <<>>
       /\ IF ret.message \in {"repository not found", "Could not read from remote repository"}
          THEN EmptyValid(syncStore) /\ ret.shown = {}
          ELSE syncStore = ret.storeBefore /\ ret.shown = {"Could not initialize"}

C20_Witness ==
  /\ Initialized /\ ~ret.had
  /\ ret.clone = "no remote" /\ ret.storeBefore = MissingFile
  /\ EmptyValid(syncStore)

\* a step of sync, by whichever caller
SyncStep ==
  \E by \in {"manual", "timer"}, net \in {"up", "down"}, netError \in NetworkErrors :
    Sync(by, net, netError)

\* a step of sync started by the interval's callback
TimerSyncStep ==
  \E net \in {"up", "down"}, netError \in NetworkErrors : Sync("timer", net, netError)

\* C21: a sync that reports updated = true, and a call of reloadPatterns,
\* invalidate the matcher's cache: the next read of the patterns by the matcher
\* returns the store's current content and not the cached list, also while the
\* TTL has not expired
C21_SyncInvalidatesCache ==
  [][((SyncStep /\ ret'.updated) \/ ReloadPatterns)
       => \/ ~CacheValid'
          \/ cachedPatterns' = loadAllPatterns(syncStore').value]_vars

\* C25: at most one interval timer is active, none after stopAutoSync or
\* dispose, and a sync is started by the timer only while the handle of the
\* active timer is held
C25_SingleCancellableTimer ==
  /\ [](/\ Cardinality(autoSync.timers) <= 1
        /\ autoSync.op \in {"stop", "dispose"} => autoSync.timers = {}
        /\ autoSync.handle = 0 => autoSync.timers = {})
  /\ [][TimerSyncStep => autoSync.handle # 0 /\ autoSync.timers = {autoSync.handle}]_vars

C25_Witness ==
  /\ autoSync.op \in {"stop", "dispose"}
  /\ autoSync.made = 2
  /\ autoSync.timers = {}
  /\ Synced /\ ret.by = "timer"

----------------------------------------------------------------------------
(* Further properties of the committer, checked under SpecCommit *)

Growth(st) == IF st.file = "ok" THEN st.data.growth ELSE <<>>

\* C24: a merge appends exactly one growth entry {date, patternsAdded} to the
\* statistics, and the growth history holds at most 90 entries: the most
\* recent ones, in order
C24_GrowthBounded ==
  /\ [](Len(Growth(stats)) <= 90)
  /\ [][Merge =>
         LET old == Growth(stats)
             new == Growth(stats')
             kept == Len(new) - 1
         IN /\ stats'.file = "ok"
            /\ Len(new) = IF Len(old) < 90 THEN Len(old) + 1 ELSE 90
            /\ new[Len(new)] = [date |-> DayOf(clock), patternsAdded |-> Len(batch)]
            /\ \A i \in 1..kept : new[i] = old[Len(old) - kept + i]]_vars

C24_Witness ==
  /\ Logged("merge")
  /\ Len(Growth(stats)) = 90
  /\ Growth(stats)[90] = [date |-> DayOf(clock), patternsAdded |-> Len(batch)]
  /\ Growth(stats)[1] = Growth(GrownRepo.stats)[2]
  /\ Growth(stats)[1] # Growth(GrownRepo.stats)[1]

\* C27: commitPatterns returns success exactly if commitWithVSCodeGit
\* succeeded or commitWithBackendAPI succeeded, and when commitWithVSCodeGit
\* succeeded the second tier was not attempted: no token lookup or prompt, no
\* HTTP request; the second tier is attempted only after the first returned
C27_TiersInOrder ==
  /\ Returned =>
       (result.success <=>
          \/ t1.success
          \/ Logged("http") /\ reply.kind = "ok")
  /\ t1.success => ~Logged("token") /\ ~Logged("http")
  /\ Logged("token") \/ Logged("http") => t1.authMethod = "vscode-git"

C27_Witness ==
  /\ Returned
  /\ t1.success /\ result = t1
  /\ log = <<"merge", "commit", "push">>

----------------------------------------------------------------------------
(* Further properties of the extractor, checked under SpecExtract *)

\* the number of members of a group the user approved
Approvals(group) ==
  Cardinality({ k \in 1..Len(group) : group[k].userAction = "APPROVED" })

\* the positions of the queue put into group i, and the m-th of them
PositionsOf(i) == { k \in 1..Len(queue) : ret.groupOf[k] = i }

NthOf(P, m) == CHOOSE k \in P : Cardinality({ j \in P : j <= k }) = m

FirstOf(i) == NthOf(PositionsOf(i), 1)

\* C28: the extraction drops every group with fewer than 2 approved events:
\* the patterns are those of the groups with at least 2, in order, so a queue
\* with fewer than 2 approved events yields none and every pattern has
\* usageCount >= 2
C28_TwoApprovalsNeeded ==
  Extracted =>
    LET kept == SelectSeq(ret.groups, LAMBDA g : Approvals(g) >= 2)
    IN /\ Len(ret.patterns) = Len(kept)
       /\ \A j \in 1..Len(ret.patterns) :
            /\ ret.patterns[j].metadata.usageCount = Len(kept[j])
            /\ ret.patterns[j].metadata.usageCount >= 2
            /\ ret.patterns[j].metadata.successRate.den = Len(kept[j])
       /\ Approvals(queue) < 2 => ret.patterns = <<>>

C28_Witness ==
  /\ Extracted
  /\ Len(ret.patterns) = 1
  /\ \E i \in 1..Len(ret.groups) : Approvals(ret.groups[i]) = 1
  /\ \E i \in 1..Len(ret.groups) :
       Approvals(ret.groups[i]) = 2 /\ Len(ret.groups[i]) = 3

\* C29: the grouping is one pass, greedy, first match wins: an event joins
\* the first group, in order of creation, whose first member is similar to it,
\* else it starts a new group; the groups partition the queue and keep its
\* order; the first members of distinct groups are pairwise dissimilar
C29_GreedyPartition ==
  Extracted =>
    LET groups == ret.groups
        n == Len(groups)
    IN /\ \A k \in 1..Len(queue) : ret.groupOf[k] \in 1..n
       /\ \A i \in 1..n :
            /\ PositionsOf(i) # {}
            /\ Len(groups[i]) = Cardinality(PositionsOf(i))
            /\ \A m \in 1..Len(groups[i]) : groups[i][m] = queue[NthOf(PositionsOf(i), m)]
       /\ \A i, j \in 1..n : i < j => FirstOf(i) < FirstOf(j)
       /\ \A k \in 1..Len(queue) :
            /\ \A i \in 1..(ret.groupOf[k] - 1) :
                 ~isSimilarContext(groups[i][1].context, queue[k].context)
            /\ k # FirstOf(ret.groupOf[k]) =>
                 isSimilarContext(groups[ret.groupOf[k]][1].context, queue[k].context)
       /\ \A i, j \in 1..n :
            i # j => ~isSimilarContext(groups[i][1].context, groups[j][1].context)

C29_Witness ==
  /\ Extracted
  /\ \E k \in 1..Len(queue) : \E j \in 1..Len(ret.groups) :
       /\ ret.groupOf[k] < j
       /\ FirstOf(j) < k
       /\ isSimilarContext(ret.groups[j][1].context, queue[k].context)

\* C30: the category of an extracted pattern follows the fixed priority
\* deployment, debugging (error), architectural, performance by the keyword in
\* its problem type, else techStack if its common context has technologies,
\* else general: a pattern without keyword and without common technologies is
\* general
C30_CategoryPriority ==
  Extracted =>
    \A j \in 1..Len(ret.patterns) :
      LET context == ret.patterns[j].pattern.context
          pb == Get(context, "problemType")
      IN ret.patterns[j].category =
           CASE Includes(pb, "deployment")   -> "deployment"
             [] Includes(pb, "error")        -> "debugging"
             [] Includes(pb, "architecture") -> "architectural"
             [] Includes(pb, "performance")  -> "performance"
             [] Techs(context) # <<>>        -> "techStack"
             [] OTHER                        -> "general"

----------------------------------------------------------------------------
(* A session with both components: LearningSync on <globalStorage>/dimag    *)
(* (constructor, sync.ts 25-28) and the GitCommitter of the command on      *)
(* <globalStorage>/dimag-brain (constructor, sync.ts 337-340). Neither      *)
(* holds a lock: a handler runs until its next await, and then any other    *)
(* handler may run.                                                        *)

InitSession ==
  /\ InitFrom({<<>>}, {extractPatterns(Repeat(evApproval, 10), 0)}, {FreshRepo})
  /\ git = FALSE
  /\ \E w \in WorkingCopies :
       /\ w.head \in {<<>>, <<1>>}
       /\ syncGitDir = w.gitDir /\ syncHead = w.head /\ syncStore = w.store
  /\ origin = <<1, 2>>
  /\ cachedPatterns = <<>>
  /\ cacheExpiry = 0
  /\ ret = NoRet
  /\ autoSync = NoTimer
  /\ NoRace

NextSession ==
  \/ Initialize("up", "Could not resolve host")
  \/ StartAutoSync(TRUE)
  \/ \E by \in {"manual", "timer"} : Sync(by, "up", "Could not resolve host")
  \/ LoadAllPatterns
  \/ InvokeCommitLearnings
  \/ CommitSteps

SpecSession == InitSession /\ [][NextSession]_vars

\* commitWithVSCodeGit of a commitPatterns call is suspended at one of its awaits
CommitInFlight == cpc \in {"merge", "stage", "push"}

\* C22: the operations that change the local working copy exclude each other:
\* no pull of a sync (manual or by the timer) runs while the merge and commit
\* of a commitPatterns call is in flight
C22_MutuallyExclusive ==
  [][(SyncStep /\ ret'.pull # "uninitialized") => ~CommitInFlight]_vars

\* C26: the committer works on the working copy of the synchronizer: once
\* LearningSync.initialize has established it, the committer's initialize
\* finds it, so commitPatterns does not fail with 'Git not initialized', and a
\* pattern the committer's merge appended is returned by a later
\* loadAllPatterns of the synchronizer
C26_SharedWorkingCopy ==
  /\ [][(CommitLearnings /\ extractedPatterns # <<>> /\ git /\ syncGitDir)
          => cpc' = "merge"]_vars
  /\ [][(LoadAllPatterns /\ Logged("merge"))
          => IdsOf(batch) \subseteq IdsOf(ret'.value)]_vars

----------------------------------------------------------------------------
(* captureDecision calls of several callers, each run from one await to the *)
(* next: a call that is suspended lets any other call run. The events carry *)
(* their timestamp, here the number of the capture.                        *)

MaxCallers == 2
MaxRaceCaptures == 3

Callers == 1..MaxCallers

StampedApproval(n) == [timestamp |-> n] @@ evApproval

Stamps(q) == { q[k].timestamp : k \in 1..Len(q) }

\* a queue of an earlier session, one event below the threshold
InitRace ==
  /\ InitFrom({[n \in 1..(COMMIT_THRESHOLD - 1) |-> StampedApproval(n)]}, {<<>>},
              {FreshRepo})
  /\ brainRepo = FALSE
  /\ LibIdle

Suspend(c, at) == inflight' = (c :> at) @@ inflight

Resume(c) == inflight' = [d \in DOMAIN inflight \ {c} |-> inflight[d]]

\* captureDecision (learning enabled) up to the await of saveQueue
BeginCapture(c) ==
  /\ c \notin DOMAIN inflight
  /\ captures < MaxRaceCaptures
  /\ captures' = captures + 1
  /\ queue' = Append(queue, StampedApproval(COMMIT_THRESHOLD + captures))
  /\ persistedQueue' = saveQueue(queue')
  /\ Suspend(c, "saveQueue")
  /\ UNCHANGED <<extractedPatterns, extractions, clock, last, repoVars, apiToken, cpc,
                 callVars, syncVars, matcherVars, ret>>

\* triggerCommit from extractPatterns up to the await of the update of
\* 'extractedPatterns'
ExtractAndStore(c) ==
  LET patterns == extractPatterns(queue, clock)
  IN IF patterns = <<>>
     THEN Resume(c) /\ UNCHANGED <<extractedPatterns, extractions>>
     ELSE /\ extractedPatterns' = patterns
          /\ extractions' = Append(extractions, Stamps(queue))
          /\ Suspend(c, "update")

\* captureDecision after saveQueue: shouldCommit, and triggerCommit up to its
\* first await
AfterSaveQueue(c, autoCommit) ==
  /\ c \in DOMAIN inflight /\ inflight[c] = "saveQueue"
  /\ IF ~shouldCommit(queue)
     THEN Resume(c) /\ UNCHANGED <<extractedPatterns, extractions>>
     ELSE IF ~autoCommit
     THEN Suspend(c, "prompt") /\ UNCHANGED <<extractedPatterns, extractions>>
     ELSE ExtractAndStore(c)
  /\ UNCHANGED <<queueVars, clock, last, repoVars, apiToken, cpc, callVars, syncVars,
                 matcherVars, ret>>

\* triggerCommit after the user answered its prompt
AfterPrompt(c, choice) ==
  /\ c \in DOMAIN inflight /\ inflight[c] = "prompt"
  /\ IF choice # "Yes, Commit"
     THEN Resume(c) /\ UNCHANGED <<extractedPatterns, extractions>>
     ELSE ExtractAndStore(c)
  /\ UNCHANGED <<queueVars, clock, last, repoVars, apiToken, cpc, callVars, syncVars,
                 matcherVars, ret>>

\* triggerCommit after the update: this.queue = [] and saveQueue; the command
\* it runs next does not touch the queue
AfterUpdate(c) ==
  /\ c \in DOMAIN inflight /\ inflight[c] = "update"
  /\ queue' = <<>>
  /\ persistedQueue' = saveQueue(queue')
  /\ Resume(c)
  /\ UNCHANGED <<captures, extractedPatterns, extractions, clock, last, repoVars,
                 apiToken, cpc, callVars, syncVars, matcherVars, ret>>

NextRace ==
  \/ \E c \in Callers : BeginCapture(c)
  \/ \E c \in Callers, autoCommit \in BOOLEAN : AfterSaveQueue(c, autoCommit)
  \/ \E c \in Callers, choice \in {"Yes, Commit", "Not Now"} : AfterPrompt(c, choice)
  \/ \E c \in Callers : AfterUpdate(c)

SpecRace == InitRace /\ [][NextRace]_vars

\* the number of extractions the event with that timestamp was an input of
TimesExtracted(n) ==
  Cardinality({ i \in 1..Len(extractions) : n \in extractions[i] })

\* C23: under interleaved captureDecision calls the append, threshold check
\* and clear behave as one atomic step: every captured event is still in the
\* queue or was an input of exactly one extraction; none is dropped by a clear
\* that follows an extraction it was not part of, none is extracted twice
C23_QueueAtomic ==
  \A n \in 1..(COMMIT_THRESHOLD - 1 + captures) :
    /\ TimesExtracted(n) <= 1
    /\ TimesExtracted(n) = 0 => n \in Stamps(queue)

----------------------------------------------------------------------------
(* Properties of the extracted patterns, checked under SpecExtract *)

\* the groups the patterns of the last extraction were made of, in order
KeptGroups == SelectSeq(ret.groups, LAMBDA g : Approvals(g) >= 2)

\* the members of a group that have the field, and the values they have
Having(group, f) == { k \in 1..Len(group) : Get(group[k].context, f) # NoValue }

ValuesOf(group, f) == { group[k].context[f] : k \in Having(group, f) }

\* the number of times a technology is listed by the members of a group
Occurrences(group, t) ==
  SumSeq([k \in 1..Len(group) |-> Count(Techs(group[k].context), t)])

\* C31 as stated: projectType and problemType are in the common context only
\* if every member of the group has the field with that one value, and a
\* technology only if at least half of the members list it
C31_IdenticalAcrossAll ==
  Extracted =>
    \A j \in 1..Len(ret.patterns) :
      LET context == ret.patterns[j].pattern.context
          group == KeptGroups[j]
      IN /\ \A f \in {"projectType", "problemType"} :
              f \in DOMAIN context =>
                \A k \in 1..Len(group) : Get(group[k].context, f) = context[f]
         /\ \A t \in Range(context.technologies) :
              2 * Cardinality({ k \in 1..Len(group) : t \in TechSet(group[k]) })
                >= Len(group)

\* C31: projectType and problemType are in the common context exactly if some
\* member has the field and all members that have it agree (members without
\* it are left out of the comparison); a technology is in it exactly if it is
\* listed at least half as many times as the group has members
C31_CommonAmongHaving ==
  Extracted =>
    \A j \in 1..Len(ret.patterns) :
      LET context == ret.patterns[j].pattern.context
          group == KeptGroups[j]
      IN /\ \A f \in {"projectType", "problemType"} :
              /\ f \in DOMAIN context <=> Cardinality(ValuesOf(group, f)) = 1
              /\ f \in DOMAIN context => ValuesOf(group, f) = {context[f]}
         /\ Range(context.technologies) =
              { t \in UNION { TechSet(group[k]) : k \in 1..Len(group) } :
                  2 * Occurrences(group, t) >= Len(group) }

C31_Witness ==
  /\ Extracted
  /\ \E j \in 1..Len(ret.patterns) :
       /\ Having(KeptGroups[j], "problemType") \notin {{}, 1..Len(KeptGroups[j])}
       /\ "problemType" \in DOMAIN ret.patterns[j].pattern.context
       /\ ret.patterns[j].pattern.context.technologies # <<>>

\* the members of a group that count as successes: approved, and without an
\* outcome that reports a failure
Successes(group) ==
  { k \in 1..Len(group) :
      group[k].userAction = "APPROVED" /\ group[k].outcome \in {"success", "none"} }

\* C32: the successRate of a pattern is the number of members of its group
\* that are APPROVED and whose outcome does not report a failure, divided by
\* the size of the group: a member without outcome counts as a success, a
\* REJECTED or MODIFIED member does not
C32_SuccessRate ==
  Extracted =>
    \A j \in 1..Len(ret.patterns) :
      /\ ret.patterns[j].metadata.successRate =
           [num |-> Cardinality(Successes(KeptGroups[j])), den |-> Len(KeptGroups[j])]
      /\ ret.patterns[j].pattern.confidence = ret.patterns[j].metadata.successRate

C32_Witness ==
  /\ Extracted
  /\ \E j \in 1..Len(ret.patterns) :
       LET group == KeptGroups[j]
       IN /\ \E k \in 1..Len(group) :
               group[k].userAction = "APPROVED" /\ group[k].outcome = "failure"
          /\ \E k \in 1..Len(group) : group[k].userAction # "APPROVED"
          /\ ret.patterns[j].metadata.successRate = [num |-> 2, den |-> 4]

----------------------------------------------------------------------------
(* Properties of the matcher's score, checked under SpecMatch *)

RatioEq(a, b) == a.num * b.den = b.num * a.den

\* min(1, rawScore * 0.7 + historical * 0.3) for the k-th pattern read by the
\* last call, with rawScore = 0.3 for the same project type + 0.4 * common /
\* over for the technologies + 0.2 for similar problem types + 0.1 for an
\* intent and an approach of which one contains the other
Weighted(k, common, over, historical) ==
  LET pc == ret.patterns[k].pattern.context
      live == ret.context
      approach == ret.patterns[k].pattern.solution.approach
      project == IF /\ Get(pc, "projectType") # NoValue
                    /\ Get(pc, "projectType") = Get(live, "projectType") THEN 3 ELSE 0
      problem == IF /\ Get(pc, "problemType") # NoValue
                    /\ Get(live, "problemType") # NoValue
                    /\ \/ pc.problemType = live.problemType
                       \/ Buckets(pc.problemType) \cap Buckets(live.problemType) # {}
                 THEN 2 ELSE 0
      wording == IF /\ approach # NoValue
                    /\ Contains(ret.intent, approach) \/ Contains(approach, ret.intent)
                 THEN 1 ELSE 0
      d == IF over = 0 THEN 1 ELSE over
      raw == [num |-> d * (project + problem + wording) + 4 * common, den |-> 10 * d]
      sum == [num |-> 7 * raw.num * historical.den + 3 * historical.num * raw.den,
              den |-> 10 * raw.den * historical.den]
  IN IF sum.num > sum.den THEN [num |-> 1, den |-> 1] ELSE sum

PatternTechs(k) == Range(Techs(ret.patterns[k].pattern.context))

LiveTechs == Range(Techs(ret.context))

Matched == ret.op \in {"findMatch", "findAllMatches"}

\* C33 as stated: the confidence of a match is min(1, rawScore * 0.7 +
\* historicalConfidence * 0.3), where the technologies weigh in by the Jaccard
\* overlap of the pattern's and the live technology sets and
\* historicalConfidence is the stored confidence; it is within [0, 1]
C33_JaccardScore ==
  Matched =>
    \A k \in 1..Len(ret.patterns) :
      /\ RatioEq(ConfidenceOf(k),
                 Weighted(k, Cardinality(PatternTechs(k) \cap LiveTechs),
                          Cardinality(PatternTechs(k) \cup LiveTechs),
                          ret.patterns[k].pattern.confidence))
      /\ InUnit(ConfidenceOf(k))

\* C33: the same, but the technologies weigh in by the number of common
\* technologies over the size of the larger of the two sets, and
\* historicalConfidence is 0.5 for a stored confidence of 0
C33_OverlapOfLargerScore ==
  Matched =>
    \A k \in 1..Len(ret.patterns) :
      LET stored == ret.patterns[k].pattern.confidence
          sizes == {Cardinality(PatternTechs(k)), Cardinality(LiveTechs)}
      IN /\ RatioEq(ConfidenceOf(k),
                    Weighted(k, Cardinality(PatternTechs(k) \cap LiveTechs),
                             CHOOSE n \in sizes : \A m \in sizes : m <= n,
                             IF stored.num = 0 THEN [num |-> 1, den |-> 2] ELSE stored))
         /\ InUnit(ConfidenceOf(k))
         /\ \A i \in 1..Len(ret.value) : InUnit(ret.value[i].confidence)

C33_Witness ==
  /\ ret.op = "findAllMatches"
  /\ \E i \in 1..Len(ret.value) : \E k \in 1..Len(ret.patterns) :
       /\ ret.value[i].pattern = ret.patterns[k]
       /\ ret.value[i].confidence = ConfidenceOf(k)
       /\ PatternTechs(k) \cap LiveTechs # {}
       /\ PatternTechs(k) \ LiveTechs # {}
       /\ LiveTechs \ PatternTechs(k) # {}
       /\ RatioGT([num |-> 1, den |-> 1], ConfidenceOf(k))

----------------------------------------------------------------------------
(* Properties of the matcher's cache, checked under SpecSync *)

\* a call of the matcher that reads the patterns
ReadStep ==
  \E intent \in Intents, projectContext \in LiveContexts :
    FindMatch(intent, projectContext) \/ FindAllMatches(intent, projectContext)

\* the read loads the list from the store and starts a new TTL
Reloads ==
  /\ ret'.patterns = loadAllPatterns(syncStore).value
  /\ cachedPatterns' = ret'.patterns
  /\ cacheExpiry' = clock + CACHE_TTL

\* C34 as stated: a read within the TTL of the last load returns the cached
\* list and does not read the store; a read after expiry reloads from the
\* store; a sync without update leaves the cache as it is; no read returns a
\* list loaded a TTL or more earlier
C34_TtlCache ==
  /\ [][ReadStep =>
          /\ clock < cacheExpiry =>
               ret'.patterns = cachedPatterns /\ UNCHANGED matcherVars
          /\ clock >= cacheExpiry => Reloads
          /\ clock < cacheExpiry']_vars
  /\ [][(SyncStep /\ ~ret'.updated) => UNCHANGED matcherVars]_vars

\* C34: the same for a cached list that is not empty; while the cached list is
\* empty every read reloads from the store, also within the TTL
C34_TtlCacheUnlessEmpty ==
  /\ [][ReadStep =>
          /\ (clock < cacheExpiry /\ Len(cachedPatterns) > 0) =>
               ret'.patterns = cachedPatterns /\ UNCHANGED matcherVars
          /\ (clock >= cacheExpiry \/ Len(cachedPatterns) = 0) => Reloads
          /\ clock < cacheExpiry']_vars
  /\ [][(SyncStep /\ ~ret'.updated) => UNCHANGED matcherVars]_vars

C34_Witness ==
  /\ Matched
  /\ ret.cached
  /\ ret.patterns = cachedPatterns
  /\ cachedPatterns # <<>>
  /\ clock < cacheExpiry
  /\ Synced => ~ret.updated

----------------------------------------------------------------------------
(* Properties of the pattern ids, checked under SpecExtract *)

\* C35: the patterns of one extraction have pairwise distinct ids, also when
\* two groups generalize to the same common context and are made into
\* patterns within one tick of the clock
C35_ExtractionIdsDistinct ==
  Extracted =>
    \A i, j \in 1..Len(ret.patterns) :
      i # j => ret.patterns[i].id # ret.patterns[j].id

----------------------------------------------------------------------------
(* The committer on a working copy whose store and statistics files do not  *)
(* exist yet                                                               *)

InitFresh == InitFrom({<<>>}, StoredBatches, {FreshRepo}) /\ LibIdle

SpecFresh == InitFresh /\ [][NextCommit]_vars

\* the sum of the per-category counts of the statistics
CategorySum(categories) ==
  LET RECURSIVE SumOver(_)
      SumOver(D) == IF D = {} THEN 0
                    ELSE LET c == CHOOSE c \in D : TRUE
                         IN categories[c] + SumOver(D \ {c})
  IN SumOver(DOMAIN categories)

\* C36: the statistics stay consistent with the store: after any sequence of
\* commitPatterns calls from empty files, re-commits of ids that are present
\* and retries after a failed publish included, statistics.totalPatterns is
\* the store's metadata.totalPatterns, and the per-category counts sum to it
C36_StatsMatchStore ==
  (store.file = "ok" /\ stats.file = "ok" /\ cpc \notin {"merge"}) =>
    /\ stats.data.totalPatterns = store.data.metadata.totalPatterns
    /\ CategorySum(stats.data.categories) = store.data.metadata.totalPatterns

----------------------------------------------------------------------------
(* The pipeline after a session whose commit failed: its batch is still in  *)
(* globalState 'extractedPatterns', and events were captured since          *)

InitPending ==
  /\ InitFrom(StoredQueues, {extractPatterns(Repeat(evApproval, 10), 0)}, {FreshRepo})
  /\ LibIdle

SpecPending == InitPending /\ [][Next]_vars

\* C37: a batch stored for the committer stays pending until a commitPatterns
\* call for it succeeds, and an extraction that happens while an earlier batch
\* is unpublished does not discard that batch
C37_PendingBatchKept ==
  [][extractedPatterns # <<>> =>
       \/ extractedPatterns' = <<>> /\ cpc = "finish" /\ result.success
       \/ IdsOf(extractedPatterns) \subseteq IdsOf(extractedPatterns')]_vars

----------------------------------------------------------------------------
(* Further properties of the synchronizer, checked under SpecSync *)

\* LearningSync.initialize with the network up
InitializeOnline == \E netError \in NetworkErrors : Initialize("up", netError)

\* C38: initialize brings an existing working copy up to date: it pulls from
\* the remote, so that a working copy behind origin/main is at its head, with
\* its patterns, when initialize returns
C38_InitializePulls ==
  [][(InitializeOnline /\ syncGitDir /\ origin # <<>> /\ IsPrefix(syncHead, origin))
       => /\ syncHead' = origin
          /\ syncStore' = RevStore(origin[Len(origin)])]_vars

----------------------------------------------------------------------------
(* Further properties of the session, checked under SpecSession *)

\* the backend published the batch of the last commitPatterns call: origin/main
\* has a commit the committer's working copy does not have
PublishedByBackend == result.success /\ result.authMethod = "backend-api"

\* C39: commitPatterns does not leave the local working copy diverged from
\* the remote: when it has returned after a failed push, no local commit is
\* left beside what the remote got, and a later sync of a working copy behind
\* origin/main fast-forwards
C39_NeverDiverged ==
  /\ [](Returned /\ PublishedByBackend => unpushed = 0)
  /\ [][(SyncStep /\ git /\ syncGitDir /\ IsPrefix(syncHead, origin))
          => /\ ret'.pull \in {"up to date", "fast-forward"}
             /\ syncHead' = origin]_vars

----------------------------------------------------------------------------
(* Further properties of the capture pipeline, checked under Spec *)

\* a captureDecision call made while learning.enabled is false, whatever the
\* event (the captureApproval, captureCorrection and captureRejection wrappers
\* build the event and call captureDecision) and the other settings
DisabledCapture ==
  \E event \in EventPool, autoCommit \in BOOLEAN, choice \in {"Yes, Commit", "Not Now"} :
    CaptureDecision(event, FALSE, autoCommit, choice)

\* C40: with learning disabled captureDecision leaves the in-memory queue, the
\* persisted queue and the stored patterns unchanged and starts no extraction
\* and no commit
C40_DisabledCaptureFrame ==
  [][DisabledCapture
       => /\ UNCHANGED <<queue, persistedQueue, extractedPatterns>>
          /\ cpc' = "idle"
          /\ last'.effects = {}]_vars

\* a call with learning disabled was made on a queue one event short of the
\* commit threshold
C40_Witness ==
  /\ last.op = "capture"
  /\ last.effects = {}
  /\ last.size = COMMIT_THRESHOLD - 1
  /\ Len(queue) = COMMIT_THRESHOLD - 1
  /\ cpc = "idle"

=============================================================================
